---- MODULE Spec2Model ----
(***************************************************************************)
(* Event router (backend/robusta_playbooks.py) and investigation engine    *)
(* (backend/holmes_rca.py) of kd2594/observability.                        *)
(*                                                                         *)
(* Strings are abstracted to what the code asks of them: equality with a   *)
(* literal, and case-insensitive containment of one of the probe words the *)
(* code searches for (Has).  Floats are abstracted to integers.            *)
(***************************************************************************)
EXTENDS Integers, Sequences, FiniteSets, TLC

VARIABLES
    playbooks,       \* RobustaEventProcessor.playbooks
    runs,            \* RobustaEventProcessor.runs
    events,          \* RobustaEventProcessor.events
    investigations,  \* HolmesRCA.investigations (id -> HolmesInvestigation)
    counter,         \* HolmesRCA._counter
    clock,           \* datetime.utcnow(), in ticks
    uuids,           \* number of uuid4() values drawn so far
    pc,              \* per call: position in process_event / investigate
    frame,           \* per call: the locals of the running coroutines
    ret,             \* per call: the value returned to the caller
    calls,           \* number of calls the host has started
    sources,         \* how the log source and the metrics source answer
    sample           \* input and output of one classifier evaluation

vars == <<playbooks, runs, events, investigations, counter, clock, uuids,
          pc, frame, ret, calls, sources, sample>>

(***************************************************************************)
(* Bounds of the model.                                                    *)
(***************************************************************************)
MaxCalls == 2        \* calls of process_event / investigate by the host

Calls == 1..MaxCalls

(***************************************************************************)
(* Python values held in event and alert mappings.                         *)
(***************************************************************************)
Str(x) == [t |-> "str", s |-> x, n |-> 0]
Num(k) == [t |-> "num", s |-> "", n |-> k]
None == [t |-> "none", s |-> "", n |-> 0]
Uuid(k) == [t |-> "uuid", s |-> "", n |-> k]
Time(k) == [t |-> "time", s |-> "", n |-> k]

\* dict.get(k, d)
Get(m, k, d) == IF k \in DOMAIN m THEN m[k] ELSE d

\* dict.setdefault(k, d) as the mapping it leaves behind
SetDefault(m, k, d) ==
    IF k \in DOMAIN m THEN m
    ELSE [x \in DOMAIN m \cup {k} |-> IF x = k THEN d ELSE m[x]]

(***************************************************************************)
(* Has(s): the probe words that occur in s, compared case-insensitively.   *)
(* The probe words are the literals the code searches for with `in` after  *)
(* .upper() or .lower(): ERROR FATAL EXCEPTION CRITICAL OOM KILLED FAIL    *)
(* TIMEOUT OOMKILL DEADLINE "CONNECTION REFUSED" CPU MEMORY.               *)
(***************************************************************************)
Has(s) ==
    CASE s = "ServiceDown" -> {}
      [] s = "InstanceDown" -> {}
      [] s = "HighCPUUsage" -> {"CPU"}
      [] s = "OOMKilled" -> {"OOM", "OOMKILL", "KILLED"}
      [] s = "ScrapeFailed" -> {"FAIL"}
      [] s = "cpu" -> {"CPU"}
      [] s = "memory" -> {"MEMORY"}
      [] s = "memory-hog" -> {"MEMORY"}
      [] s = "critical" -> {"CRITICAL"}
      \* log levels
      [] s = "ERROR" -> {"ERROR"}
      \* message bodies of the synthetic log lines (holmes_rca.py:98-106)
      [] s = "High memory usage detected: 85% of 512Mi limit" -> {"MEMORY"}
      [] s = "Connection timeout to downstream service: deadline exceeded"
            -> {"TIMEOUT", "DEADLINE"}
      [] s = "OOMKill signal received, container memory exceeded limit"
            -> {"OOM", "OOMKILL", "MEMORY"}
      [] s = "Failed health check: GET /health 503 Service Unavailable"
            -> {"FAIL"}
      \* lines of a live log source
      [] s = "upstream request timeout" -> {"TIMEOUT"}
      [] s = "connection refused by peer" -> {"CONNECTION REFUSED"}
      [] s = "Out of memory: Killed process 4242" -> {"MEMORY", "KILLED"}
      [] s = "panic: fatal error in worker" -> {"FATAL", "ERROR"}
      [] OTHER -> {}

(***************************************************************************)
(* float(v): <<TRUE, x>> or <<FALSE, 0>> when Python raises.              *)
(***************************************************************************)
ParseFloat(s) ==
    CASE s = "95" -> <<TRUE, 95>>
      [] s = "85" -> <<TRUE, 85>>
      [] s = "80" -> <<TRUE, 80>>
      [] s = "0" -> <<TRUE, 0>>
      [] OTHER -> <<FALSE, 0>>

Float(v) ==
    CASE v.t = "num" -> <<TRUE, v.n>>
      [] v.t = "str" -> ParseFloat(v.s)
      [] OTHER -> <<FALSE, 0>>

(***************************************************************************)
(* Trigger predicates.  A predicate evaluates to "T", "F" or "X" (it       *)
(* raised); `or` and `and` evaluate left to right and stop at the first    *)
(* operand that decides or raises.                                         *)
(***************************************************************************)
B3(b) == IF b THEN "T" ELSE "F"
Or3(a, b) == IF a = "X" THEN "X" ELSE IF a = "T" THEN "T" ELSE b
And3(a, b) == IF a = "X" THEN "X" ELSE IF a = "F" THEN "F" ELSE b

\* w in v.lower() / w in v.upper(): AttributeError unless v is a str
InText(w, v) == IF v.t = "str" THEN B3(w \in Has(v.s)) ELSE "X"
\* w in str(v).lower(): str() accepts every value
InStrOf(w, v) == B3(v.t = "str" /\ w \in Has(v.s))
\* float(v) > k
FloatGt(v, k) == IF Float(v)[1] THEN B3(Float(v)[2] > k) ELSE "X"

Condition(trigger, e) ==
    CASE trigger = "on_prometheus_alert:ServiceDown" ->
            Or3(B3(Get(e, "alertname", None) \in {Str("ServiceDown"), Str("InstanceDown")}),
            Or3(B3(Get(e, "name", None) \in {Str("ServiceDown"), Str("InstanceDown")}),
                B3(Get(e, "status", None) = Str("down"))))
      [] trigger = "on_prometheus_alert:HighCPUUsage" ->
            Or3(B3(Get(e, "alertname", None) \in {Str("HighCPUUsage"), Str("CPUThrottling")}),
                And3(InStrOf("CPU", Get(e, "metric", Str(""))),
                     FloatGt(Get(e, "value", Num(0)), 80)))
      [] trigger = "on_pod_oom_killed" ->
            Or3(InText("OOM", Get(e, "alertname", Str(""))),
            Or3(InText("OOM", Get(e, "reason", Str(""))),
            Or3(InText("MEMORY", Get(e, "metric", Str(""))),
                B3(Get(e, "last_state", None) = Str("OOMKilled")))))
      [] trigger = "on_ai_anomaly_detected" ->
            Or3(B3(Get(e, "source", None) = Str("ai_agent")),
                B3(Get(e, "alertname", None) = Str("AIAnomalyDetected")))
      [] trigger = "on_prometheus_alert:severity=critical" ->
            B3(Get(e, "severity", None) = Str("critical"))
      [] trigger = "on_prometheus_alert:HighScrapeFailureRate" ->
            B3(Get(e, "alertname", None) \in {Str("HighScrapeFailureRate"), Str("ScrapeFailed")})
      \* predicates of playbooks registered by the host after start-up
      [] trigger = "custom:severity" ->
            \* lambda e: e["severity"] == "critical"  (KeyError when absent)
            IF "severity" \in DOMAIN e THEN B3(e["severity"] = Str("critical")) ELSE "X"
      [] OTHER -> "F"

\* Variant: a predicate that raises counts as a match.
matchesUnlessFalse(trigger, e) == Condition(trigger, e) # "F"

\* PlaybookTrigger.matches
matches(trigger, e) == Condition(trigger, e) = "T"

(***************************************************************************)
(* Playbooks.                                                              *)
(***************************************************************************)
NoParams == [dict |-> TRUE, has |-> FALSE, log_minutes |-> 0]
LogMinutes(m) == [dict |-> TRUE, has |-> TRUE, log_minutes |-> m]
\* a truthy params value that is no mapping (e.g. a list)
BadParams == [dict |-> FALSE, has |-> FALSE, log_minutes |-> 0]

\* PlaybookAction.__init__
PlaybookAction(name, type, params) ==
    [name |-> name, action_type |-> type, params |-> params]

\* Playbook.__init__: id is a fresh uuid, run_count 0, last_run None (-1)
Playbook(k, name, triggers, actions) ==
    [id |-> Uuid(k), name |-> name, triggers |-> triggers, actions |-> actions,
     run_count |-> 0, last_run |-> -1]

\* RobustaEventProcessor._register_defaults
DefaultPlaybooks ==
    << Playbook(1, "on_service_down", <<"on_prometheus_alert:ServiceDown">>,
           << PlaybookAction("holmes_ai_analysis", "investigate", NoParams),
              PlaybookAction("fetch_loki_logs", "k8s_query", LogMinutes(30)),
              PlaybookAction("send_enriched_alert", "notify", NoParams) >>),
       Playbook(2, "on_high_cpu", <<"on_prometheus_alert:HighCPUUsage">>,
           << PlaybookAction("holmes_ai_analysis", "investigate", NoParams),
              PlaybookAction("check_hpa", "k8s_query", NoParams),
              PlaybookAction("scaling_recommendation", "recommend", NoParams) >>),
       Playbook(3, "on_oom_kill", <<"on_pod_oom_killed">>,
           << PlaybookAction("holmes_ai_analysis", "investigate", NoParams),
              PlaybookAction("fetch_crash_logs", "k8s_query", LogMinutes(60)),
              PlaybookAction("memory_growth_analysis", "correlate", NoParams) >>),
       Playbook(4, "on_ai_anomaly", <<"on_ai_anomaly_detected">>,
           << PlaybookAction("holmes_ai_analysis", "investigate", NoParams),
              PlaybookAction("cross_service_correlation", "correlate", NoParams),
              PlaybookAction("notify_on_call", "notify", NoParams) >>),
       Playbook(5, "on_critical_alert", <<"on_prometheus_alert:severity=critical">>,
           << PlaybookAction("holmes_ai_analysis", "investigate", NoParams),
              PlaybookAction("create_incident", "notify", NoParams) >>),
       Playbook(6, "on_scrape_failure", <<"on_prometheus_alert:HighScrapeFailureRate">>,
           << PlaybookAction("network_check", "k8s_query", NoParams),
              PlaybookAction("holmes_ai_analysis", "investigate", NoParams) >> ) >>

\* The playbooks the host registers itself, in this order
\* (RobustaEventProcessor.register is public): the first has an action
\* whose params is no mapping.
CustomPlaybooks ==
    << [name |-> "custom_audit", triggers |-> <<"custom:severity">>,
        actions |-> << PlaybookAction("audit_note", "custom", NoParams),
                       PlaybookAction("audit_query", "k8s_query", BadParams),
                       PlaybookAction("holmes_ai_analysis", "investigate", NoParams) >>],
       [name |-> "custom_page", triggers |-> <<"custom:severity">>,
        actions |-> << PlaybookAction("page_on_call", "notify", NoParams) >>] >>

\* process_event line 325: the playbooks with a matching trigger, in
\* registration order, as indexes into self.playbooks
PlaybookMatches(pb, e) == \E i \in 1..Len(pb.triggers) : matches(pb.triggers[i], e)

RECURSIVE SelectIdx(_, _, _)
SelectIdx(pbs, e, i) ==
    IF i > Len(pbs) THEN <<>>
    ELSE (IF PlaybookMatches(pbs[i], e) THEN <<i>> ELSE <<>>) \o SelectIdx(pbs, e, i + 1)

\* Variant: the scan stops at the first playbook that matches.
MatchingFirst(pbs, e) ==
    IF SelectIdx(pbs, e, 1) = <<>> THEN <<>> ELSE <<Head(SelectIdx(pbs, e, 1))>>

\* Variant: every registered playbook is selected, whatever its triggers say.
MatchingAll(pbs, e) == [i \in 1..Len(pbs) |-> i]

\* process_event lines 322-325: the indices of the playbooks with a
\* matching trigger, in registration order
Matching(pbs, e) == SelectIdx(pbs, e, 1)

(***************************************************************************)
(* Evidence source adapters (HolmesToolset).                               *)
(***************************************************************************)
\* str(v) inside an f-string
StrOf(v) == IF v.t = "str" THEN v.s ELSE ""

\* One log entry.  `parts` are the pieces the line text is made of; `str`
\* says whether the entry's "line" is a Python str at all.
LogEntry(at, ago, level, parts, isStr) ==
    [at |-> at, ago |-> ago, level |-> level, parts |-> parts, str |-> isStr]

\* kw in l.get("line", "").upper()
LineWords(l) == UNION { Has(l.parts[i]) : i \in 1..Len(l.parts) }

\* HolmesToolset._synthetic_logs: nine entries, timestamped relative to now,
\* line = f"{ts} {level} [{service}] <message>"
\* Variant: the synthetic entries without the OOMKill line.
SyntheticEntriesWithoutOomKill ==
    << <<60, "INFO",  "Service started, listening on :8080">>,
       <<50, "INFO",  "Health check passed: GET /health 200 OK">>,
       <<40, "INFO",  "Processed 142 requests in last 60s">>,
       <<30, "WARN",  "High memory usage detected: 85% of 512Mi limit">>,
       <<20, "WARN",  "GC overhead increasing, heap at 430Mi">>,
       <<15, "ERROR", "Connection timeout to downstream service: deadline exceeded">>,
       <<5,  "WARN",  "Circuit breaker OPEN for dependency 'postgres'">>,
       <<2,  "ERROR", "Failed health check: GET /health 503 Service Unavailable">> >>

SyntheticEntries ==
    << <<60, "INFO",  "Service started, listening on :8080">>,
       <<50, "INFO",  "Health check passed: GET /health 200 OK">>,
       <<40, "INFO",  "Processed 142 requests in last 60s">>,
       <<30, "WARN",  "High memory usage detected: 85% of 512Mi limit">>,
       <<20, "WARN",  "GC overhead increasing, heap at 430Mi">>,
       <<15, "ERROR", "Connection timeout to downstream service: deadline exceeded">>,
       <<10, "ERROR", "OOMKill signal received, container memory exceeded limit">>,
       <<5,  "WARN",  "Circuit breaker OPEN for dependency 'postgres'">>,
       <<2,  "ERROR", "Failed health check: GET /health 503 Service Unavailable">> >>

_synthetic_logs_newest_first(service, now) ==
    [i \in 1..Len(SyntheticEntries) |->
        LET e == SyntheticEntries[Len(SyntheticEntries) + 1 - i]
        IN  LogEntry(now, e[1], e[2], <<e[2], StrOf(service), e[3]>>, TRUE)]

_synthetic_logs(service, now) ==
    [i \in 1..Len(SyntheticEntries) |->
        LogEntry(now, SyntheticEntries[i][1], SyntheticEntries[i][2],
                 <<SyntheticEntries[i][2], StrOf(service), SyntheticEntries[i][3]>>, TRUE)]

\* What the log source may answer.  "down": connection failure or timeout;
\* "non200": an error status; "garbled": status 200 with a body that does not
\* parse; "ok": status 200 with the streams' lines in `lines`.
LiveLine(text) == LogEntry(0, 0, "info", <<text>>, TRUE)
\* a stream value whose line is not a string (e.g. a JSON number)
NonStringLine == LogEntry(0, 0, "info", <<>>, FALSE)

LokiResponses ==
    { [kind |-> "down", lines |-> <<>>],
      [kind |-> "non200", lines |-> <<>>],
      [kind |-> "garbled", lines |-> <<>>],
      [kind |-> "ok", lines |-> <<>>],
      [kind |-> "ok", lines |-> <<LiveLine("GET /health 200"), LiveLine("upstream request timeout")>>],
      [kind |-> "ok", lines |-> <<LiveLine("GET /health 200"), NonStringLine>>] }

\* The states of the log source: unavailable (it answers in one of the
\* failing ways), or serving one of the bodies above.
Unavailable == [kind |-> "unavailable", lines |-> <<>>]
LokiStates == {Unavailable} \cup {r \in LokiResponses : r.kind = "ok"}
LokiAnswers(state) ==
    IF state.kind = "unavailable" THEN {r \in LokiResponses : r.kind # "ok"} ELSE {state}

\* HolmesToolset.fetch_loki_logs: the parsed lines on status 200, the
\* synthetic lines on every failure
fetch_loki_logs(service, resp, now) ==
    IF resp.kind = "ok" THEN resp.lines ELSE _synthetic_logs(service, now)

\* What the metrics source may answer to the four queries, in the order
\* cpu_usage_pct, memory_mb, scrape_ms, up: a value ("ok"), an empty result
\* ("empty"), an error status ("non200"), or a failure that raises ("raise").
Ok(v) == [kind |-> "ok", v |-> v]
Empty == [kind |-> "empty", v |-> 0]
Non200 == [kind |-> "non200", v |-> 0]
Raise == [kind |-> "raise", v |-> 0]

VmResponses ==
    { <<Ok(95), Ok(100), Ok(5), Ok(1)>>,
      <<Ok(40), Ok(100), Ok(5), Ok(1)>>,
      <<Ok(85), Non200, Empty, Ok(0)>>,
      <<Raise, Raise, Raise, Raise>> }

\* random.uniform draws of the synthetic snapshot (cpu 15..92, memory 80..490)
SyntheticDraws ==
    { [cpu_usage_pct |-> 50, memory_mb |-> 470, scrape_ms |-> 10, up |-> 1],
      [cpu_usage_pct |-> 92, memory_mb |-> 80, scrape_ms |-> 10, up |-> 1] }

\* HolmesToolset.fetch_vm_metrics
fetch_vm_metrics(resp, draw) ==
    IF \E i \in 1..4 : resp[i].kind = "raise" THEN draw
    ELSE [cpu_usage_pct |-> IF resp[1].kind = "ok" THEN resp[1].v ELSE 0,
          memory_mb     |-> IF resp[2].kind = "ok" THEN resp[2].v ELSE 0,
          scrape_ms     |-> IF resp[3].kind = "ok" THEN resp[3].v ELSE 0,
          up            |-> IF resp[4].kind = "ok" THEN resp[4].v ELSE 0]

\* HolmesToolset.kubectl_describe: service.lower() raises unless service is
\* a str; otherwise the description is synthesized from the name
KubectlRaises(service) == service.t # "str"

kubectl_describe(service, cluster) ==
    LET restart_count == IF "MEMORY" \in Has(service.s) THEN 2 ELSE 0
        last_state == IF restart_count > 0 THEN "OOMKilled" ELSE "Completed"
    IN  [status |-> "Running", cluster |-> cluster,
         containers |-> << [name |-> service, restart_count |-> restart_count,
                            last_state |-> last_state] >>,
         events |-> IF restart_count > 0
                    THEN << [type |-> "Warning", reason |-> "OOMKilling", count |-> restart_count] >>
                    ELSE <<>>]

(***************************************************************************)
(* Root-cause classifier (HolmesRCA._analyze).                             *)
(***************************************************************************)
ErrorKeywords == {"ERROR", "FATAL", "EXCEPTION", "CRITICAL", "OOM", "KILLED", "FAIL", "TIMEOUT"}
OomKeywords == {"OOM", "KILLED", "OOMKILL"}
TimeoutKeywords == {"TIMEOUT", "DEADLINE", "CONNECTION REFUSED"}

\* [l for l in logs if any(kw in l.get("line", "").upper() for kw in kws)]
WithKeyword(logs, kws) == SelectSeq(logs, LAMBDA l : LineWords(l) \cap kws # {})

\* investigate lines 322-326: .upper() raises on an entry whose line is no str
ErrorLogsRaise(logs) == \E i \in 1..Len(logs) : ~logs[i].str

\* A root-cause string: the template it was rendered from and the values
\* interpolated into it.
RootCause(template, service, a, b, c) ==
    [template |-> template, service |-> service, a |-> a, b |-> b, c |-> c]
NoRootCause == RootCause("", None, 0, 0, 0)

\* Phrases of the fixed text of each template.
Phrases(template) ==
    CASE template = "oom" -> {"OOMKill", "exceeded its memory limit (512Mi)"}
      [] template = "unreachable" -> {"is not responding to health checks (up=0)",
                                      "not responding to health checks"}
      [] template = "cpu" -> {"CPU exhaustion", "Performance degradation likely"}
      [] template = "dependency" -> {"Dependency failure", "cannot reach downstream services"}
      [] template = "anomaly" -> {"Anomalous behaviour detected", "Requires deeper investigation"}
      [] template = "failed" -> {"Investigation failed"}
      [] OTHER -> {}

\* str.upper() of a confidence level
Upper(confidence) ==
    CASE confidence = "high" -> "HIGH"
      [] confidence = "medium" -> "MEDIUM"
      [] confidence = "low" -> "LOW"
      [] OTHER -> confidence

\* HolmesRCA._build_summary
_build_summary(service, root_cause, metrics, error_count, restarts, confidence) ==
    [service |-> service, root_cause |-> root_cause,
     cpu |-> metrics.cpu_usage_pct, mem |-> metrics.memory_mb,
     error_count |-> error_count, restarts |-> restarts,
     confidence |-> Upper(confidence)]

\* Variant: the CPU test comes before the reachability test.
RuleCpuBeforeUnreachable(alert_name, oom_logs, timeout_logs, cpu, mem, up, restarts, last_state) ==
    IF oom_logs # <<>> \/ last_state = "OOMKilled" \/ (mem > 450 /\ restarts > 0) THEN 1
    ELSE IF cpu > 80 THEN 3
    ELSE IF up = 0 \/ alert_name \in {Str("ServiceDown"), Str("InstanceDown")} THEN 2
    ELSE IF timeout_logs # <<>> THEN 4
    ELSE 5

\* Variant: the memory test of the first rule asks for more than one restart.
RuleRestartsAboveOne(alert_name, oom_logs, timeout_logs, cpu, mem, up, restarts, last_state) ==
    IF oom_logs # <<>> \/ last_state = "OOMKilled" \/ (mem > 450 /\ restarts > 1) THEN 1
    ELSE IF up = 0 \/ alert_name \in {Str("ServiceDown"), Str("InstanceDown")} THEN 2
    ELSE IF cpu > 80 THEN 3
    ELSE IF timeout_logs # <<>> THEN 4
    ELSE 5

\* Variant: the CPU test comes first of all.
RuleCpuFirst(alert_name, oom_logs, timeout_logs, cpu, mem, up, restarts, last_state) ==
    IF cpu > 80 THEN 3
    ELSE IF oom_logs # <<>> \/ last_state = "OOMKilled" \/ (mem > 450 /\ restarts > 0) THEN 1
    ELSE IF up = 0 \/ alert_name \in {Str("ServiceDown"), Str("InstanceDown")} THEN 2
    ELSE IF timeout_logs # <<>> THEN 4
    ELSE 5

\* The rule of the if/elif chain (lines 407-514) that fires: 1..5
Rule(alert_name, oom_logs, timeout_logs, cpu, mem, up, restarts, last_state) ==
    IF oom_logs # <<>> \/ last_state = "OOMKilled" \/ (mem > 450 /\ restarts > 0) THEN 1
    ELSE IF up = 0 \/ alert_name \in {Str("ServiceDown"), Str("InstanceDown")} THEN 2
    ELSE IF cpu > 80 THEN 3
    ELSE IF timeout_logs # <<>> THEN 4
    ELSE 5

\* Variant: the fallback branch keeps the initial confidence of line 404.
ConfidenceFallbackKeepsDefault(rule, cpu) ==
    CASE rule = 1 -> "high"
      [] rule = 2 -> "high"
      [] rule = 3 -> IF cpu > 90 THEN "high" ELSE "medium"
      [] OTHER -> "medium"

\* The confidence each branch assigns (lines 408, 430, 454, 477, 497)
Confidence(rule, cpu) ==
    CASE rule = 1 -> "high"
      [] rule = 2 -> "high"
      [] rule = 3 -> IF cpu > 90 THEN "high" ELSE "medium"
      [] rule = 4 -> "medium"
      [] OTHER -> "low"

_analyze(alert, logs, error_logs, metrics, k8s, restarts, last_state) ==
    LET service    == Get(alert, "service", Str("unknown"))
        alert_name == Get(alert, "alertname", Get(alert, "name", Str("UnknownAlert")))
        cpu == metrics.cpu_usage_pct
        mem == metrics.memory_mb
        up  == metrics.up
        error_count  == Len(error_logs)
        oom_logs     == WithKeyword(error_logs, OomKeywords)
        timeout_logs == WithKeyword(error_logs, TimeoutKeywords)
        rule == Rule(alert_name, oom_logs, timeout_logs, cpu, mem, up, restarts, last_state)
        confidence == Confidence(rule, cpu)
        root_cause ==
            CASE rule = 1 -> RootCause("oom", service, Len(oom_logs), restarts, mem)
              [] rule = 2 -> RootCause("unreachable", service, error_count, restarts, 0)
              [] rule = 3 -> RootCause("cpu", service, cpu, error_count, 0)
              [] rule = 4 -> RootCause("dependency", service, Len(timeout_logs), 0, 0)
              [] OTHER -> RootCause("anomaly", service, 0, 0, 0)
        findings ==
            CASE rule = 1 -> <<"oomkilled", "memory", "oom-logs", "resources", "gc">>
              [] rule = 2 -> <<"health", "errors", "restarts", "phase">>
                             \o (IF timeout_logs # <<>> THEN <<"timeouts">> ELSE <<>>)
              [] rule = 3 -> <<"cpu", "memory", "errors", "limit">>
                             \o (IF error_count > 5 THEN <<"error-rate">> ELSE <<>>)
              [] rule = 4 -> <<"timeouts", "external", "errors">>
              [] OTHER -> <<"metrics", "errors", "restarts", "alert">>
        recommendations ==
            CASE rule = 1 -> 6 [] rule = 2 -> 5 [] rule = 3 -> 6 [] rule = 4 -> 6 [] OTHER -> 5
    IN  [root_cause |-> root_cause,
         summary |-> _build_summary(service, root_cause, metrics, error_count, restarts, confidence),
         findings |-> findings,
         recommendations |-> recommendations,
         confidence |-> confidence]

(***************************************************************************)
(* Investigations (HolmesInvestigation) and the engine's id generator.     *)
(***************************************************************************)
\* Variant: the id is the timestamp alone, to the second; the counter is
\* left out of it.
_new_id_by_second(now, n) == <<now, 1>>

\* HolmesRCA._new_id with the counter already incremented:
\* f"inv-{utcnow:%Y%m%d-%H%M%S}-{counter:04d}"
_new_id(now, n) == <<now, n>>
NoId == <<-1, 0>>

StepResult(text, a, b, c) == [text |-> text, a |-> a, b |-> b, c |-> c]
Step(tool, result) == [tool |-> tool, result |-> result]

\* HolmesInvestigation.__init__
HolmesInvestigation(inv_id, alert, now) ==
    [id |-> inv_id, alert |-> alert, status |-> "pending",
     started_at |-> now, completed_at |-> -1,
     steps |-> <<>>, log_evidence |-> <<>>, metric_evidence |-> <<>>, k8s_context |-> <<>>,
     root_cause |-> NoRootCause, ai_summary |-> <<>>, findings |-> <<>>,
     recommendations |-> 0, confidence |-> "medium"]

\* Variant: the new step is put in front of the others.
add_step_in_front(inv, tool, result) == [inv EXCEPT !.steps = <<Step(tool, result)>> \o @]

\* HolmesInvestigation.add_step
add_step(inv, tool, result) == [inv EXCEPT !.steps = Append(@, Step(tool, result))]

\* Variant: a step's result is written into the first step of the log,
\* not the last.
SetFirstResult(inv, result) == [inv EXCEPT !.steps[1].result = result]

\* inv.steps[-1]["result"] = result
SetLastResult(inv, result) == [inv EXCEPT !.steps[Len(inv.steps)].result = result]

\* str(e) of the exception raised in step k of investigate: .upper() of a
\* log line that is no str (step 1), .lower() of a service that is no str
\* (step 3)
StepErrorText(k) ==
    IF k = 1 THEN "'int' object has no attribute 'upper'"
    ELSE "'int' object has no attribute 'lower'"

\* Variant: the except branch leaves the error's text out of the root cause.
FailedWithoutText(inv, what, now) ==
    [inv EXCEPT !.status = "failed",
                !.root_cause = RootCause("failed", Str(""), 0, 0, 0),
                !.findings = <<"investigation-error">>,
                !.completed_at = now]

\* Variant: the except branch leaves the status as it was.
FailedKeepsStatus(inv, what, now) ==
    [inv EXCEPT !.root_cause = RootCause("failed", Str(what), 0, 0, 0),
                !.findings = <<"investigation-error">>,
                !.completed_at = now]

\* Variant: the except branch puts the investigation back to pending.
FailedReopens(inv, what, now) ==
    [inv EXCEPT !.status = "pending",
                !.root_cause = RootCause("failed", Str(what), 0, 0, 0),
                !.findings = <<"investigation-error">>,
                !.completed_at = now]

\* investigate lines 367-373: the except branch and the completion stamp.
\* `what` names the exception.
Failed(inv, what, now) ==
    [inv EXCEPT !.status = "failed",
                !.root_cause = RootCause("failed", Str(what), 0, 0, 0),
                !.findings = <<"investigation-error">>,
                !.completed_at = now]

(***************************************************************************)
(* Playbook runs (PlaybookRun).                                            *)
(***************************************************************************)
EmptyDict == [k \in {} |-> None]

\* d[k] = v
Put(d, k, v) == [x \in DOMAIN d \cup {k} |-> IF x = k THEN v ELSE d[x]]

\* PlaybookRun.__init__
PlaybookRun(k, playbook, event, now) ==
    [id |-> Uuid(k), playbook_id |-> playbook.id, playbook_name |-> playbook.name,
     event |-> event, started_at |-> now, completed_at |-> -1, status |-> "running",
     actions_taken |-> <<>>, investigation_id |-> NoId, enrichment |-> EmptyDict]

\* The textual result of an action: its fixed text and what is interpolated.
Result(text, inv, n, conf, rc) ==
    [text |-> text, inv |-> inv, n |-> n, conf |-> conf, rc |-> rc]

\* The record _run_playbook appends for a completed action (lines 347-355)
ActionRecord(action, result) ==
    [action |-> action.name, type |-> action.action_type, result |-> result]

\* The record _run_playbook appends when an action raised (lines 361-369)
ErrorRecord(what) ==
    [action |-> "error", type |-> "error", result |-> Result(what, NoId, 0, "", NoRootCause)]

\* Variant: the alert name is taken from the event's "name" only.
AlertForHolmesNameOnly(event) ==
    [service     |-> Get(event, "service", Get(event, "job", Str("unknown"))),
     cluster     |-> Get(event, "cluster", Str("local-docker")),
     alertname   |-> Get(event, "name", Str("UnknownAlert")),
     severity    |-> Get(event, "severity", Str("warning")),
     description |-> Get(event, "description", Get(event, "summary", Str(""))),
     metric      |-> Get(event, "metric", Str("")),
     value       |-> Get(event, "value", Num(0))]

\* _execute_action lines 383-393: the alert handed to the engine
AlertForHolmes(event) ==
    [service     |-> Get(event, "service", Get(event, "job", Str("unknown"))),
     cluster     |-> Get(event, "cluster", Str("local-docker")),
     alertname   |-> Get(event, "alertname", Get(event, "name", Str("UnknownAlert"))),
     severity    |-> Get(event, "severity", Str("warning")),
     description |-> Get(event, "description", Get(event, "summary", Str(""))),
     metric      |-> Get(event, "metric", Str("")),
     value       |-> Get(event, "value", Num(0))]

\* _execute_action: does the action raise?  Only action.params.get can: it
\* needs a mapping.
ActionRaises(action) == action.action_type = "k8s_query" /\ ~action.params.dict

\* str(e) of the exception the action raises
ExceptionText(action) == "'list' object has no attribute 'get'"

\* _execute_action for the kinds other than investigate (lines 405-434)
SimpleResult(action, run) ==
    CASE action.action_type = "k8s_query" ->
            Result("Queried kubectl/Loki", run.investigation_id,
                   IF action.params.has THEN action.params.log_minutes ELSE 30, "", NoRootCause)
      [] action.action_type = "notify" ->
            Result("Alert enriched with AI context and dispatched", NoId, 0, "",
                   IF "root_cause" \in DOMAIN run.enrichment
                   THEN run.enrichment["root_cause"]
                   ELSE RootCause("See investigation for details", None, 0, 0, 0))
      [] action.action_type = "recommend" ->
            Result("Scaling recommendation", NoId, 0, "", NoRootCause)
      [] action.action_type = "correlate" ->
            Result("Cross-service correlation complete", NoId, 0, "", NoRootCause)
      [] OTHER ->
            Result("Action executed successfully", NoId, 0, "", NoRootCause)

\* Variant: only a complete investigation is copied into the run.
EnrichWhenComplete(run, inv) ==
    IF inv.status # "complete" THEN [run EXCEPT !.investigation_id = inv.id]
    ELSE [run EXCEPT !.investigation_id = inv.id,
                     !.enrichment = Put(Put(Put(Put(@, "holmes_summary", inv.ai_summary),
                                        "root_cause", inv.root_cause),
                                        "findings", inv.findings),
                                        "confidence", inv.confidence)]

\* _execute_action lines 394-403: the investigation's outcome copied into
\* the run, and the action's result
Enrich(run, inv) ==
    [run EXCEPT !.investigation_id = inv.id,
                !.enrichment = Put(Put(Put(Put(@, "holmes_summary", inv.ai_summary),
                                   "root_cause", inv.root_cause),
                                   "findings", inv.findings),
                                   "confidence", inv.confidence)]

InvestigateResult(inv) ==
    Result("Holmes investigation complete", inv.id, 0, inv.confidence, inv.root_cause)

(***************************************************************************)
(* Inputs of the host.                                                     *)
(***************************************************************************)
Events ==
    { [alertname |-> Str("ServiceDown"), service |-> Str("checkout"),
       cluster |-> Str("prod-1"), status |-> Str("down")],
      [metric |-> Str("cpu"), value |-> Num(95), service |-> Str("api")],
      [alertname |-> Str("DiskFull"), service |-> Str("db")],
      [alertname |-> Str("OOMKilled"), severity |-> Str("critical"),
       service |-> Str("memory-hog")],
      [alertname |-> Str("InstanceDown"), service |-> Num(42)],
      [alertname |-> Str("ScrapeFailed"), job |-> Str("vmagent")] }

Alerts ==
    { [service |-> Str("checkout"), alertname |-> Str("HighLatency")] }

(***************************************************************************)
(* State.                                                                  *)
(***************************************************************************)
NoRun == PlaybookRun(0, Playbook(0, "", <<>>, <<>>), EmptyDict, -1)
NoMetrics == [cpu_usage_pct |-> 0, memory_mb |-> 0, scrape_ms |-> 0, up |-> 0]

EmptyFrame ==
    [kind |-> "", event |-> EmptyDict, matching |-> <<>>, lruns |-> <<>>,
     run |-> NoRun, ai |-> 0, alert |-> EmptyDict, inv |-> NoId,
     logs |-> <<>>, error_logs |-> <<>>, metrics |-> NoMetrics,
     restarts |-> 0, last_state |-> ""]

NoRet == [kind |-> "none", runs |-> <<>>, inv |-> NoId]
NoVerdict == [root_cause |-> NoRootCause, summary |-> <<>>, findings |-> <<>>,
              recommendations |-> 0, confidence |-> ""]
NoSample == [phase |-> "none", alert |-> EmptyDict, logs |-> <<>>, metrics |-> NoMetrics,
             restarts |-> 0, last_state |-> "", out |-> NoVerdict]

\* The two sources answer the same way throughout one behaviour.
Sources == [loki : LokiStates, vm : VmResponses]

Init ==
    /\ sources \in Sources
    /\ playbooks = DefaultPlaybooks
    /\ runs = <<>>
    /\ events = <<>>
    /\ investigations = [i \in {} |-> 0]
    /\ counter = 0
    /\ clock = 0
    /\ uuids = Len(DefaultPlaybooks)
    /\ pc = [t \in Calls |-> "idle"]
    /\ frame = [t \in Calls |-> EmptyFrame]
    /\ ret = [t \in Calls |-> NoRet]
    /\ calls = 0
    /\ sample = NoSample

\* The host starts its calls one after the other.
CanStart(t) == calls < MaxCalls /\ t = calls + 1 /\ pc[t] = "idle"
                /\ \A u \in Calls : pc[u] \in {"idle", "done"}

(***************************************************************************)
(* The event router (RobustaEventProcessor).                               *)
(***************************************************************************)
\* Variant: id and received_at are assigned whether or not they are there.
StampAlways(event, now, k) ==
    Put(Put(event, "received_at", Time(now)), "id", Uuid(k))

\* process_event lines 318-319: id and received_at are set only when absent
Stamp(event, now, k) ==
    SetDefault(SetDefault(event, "received_at", Time(now)), "id", Uuid(k))

\* process_event lines 318-328: stamp and log the event, select the
\* matching playbooks; return [] when there is none
TakeIn(t, e) ==
    /\  LET event == Stamp(e, clock, uuids + 1)
            matching == Matching(playbooks, event)
        IN  /\ uuids' = uuids + 1
            /\ events' = Append(events, event)
            /\ frame' = [frame EXCEPT ![t] =
                    [EmptyFrame EXCEPT !.kind = "event", !.event = event, !.matching = matching]]
            /\ pc' = [pc EXCEPT ![t] = IF matching = <<>> THEN "done" ELSE "dispatch"]
            /\ ret' = [ret EXCEPT ![t] =
                    IF matching = <<>> THEN [kind |-> "runs", runs |-> <<>>, inv |-> NoId] ELSE @]
    /\ calls' = calls + 1
    /\ UNCHANGED <<playbooks, runs, investigations, counter, clock, sources, sample>>

\* process_event, called by the host
ProcessEvent(t, e) == CanStart(t) /\ TakeIn(t, e)

\* Variant: the run is created and the playbook's counters are left alone.
RunPlaybookWithoutCount(t) ==
    /\ pc[t] = "dispatch"
    /\ LET i == Head(frame[t].matching)
       IN  /\ frame' = [frame EXCEPT ![t].run =
                            PlaybookRun(uuids + 1, playbooks[i], frame[t].event, clock),
                                     ![t].ai = 1]
           /\ playbooks' = playbooks
    /\ uuids' = uuids + 1
    /\ pc' = [pc EXCEPT ![t] = "action"]
    /\ UNCHANGED <<runs, events, investigations, counter, clock, ret, calls, sources, sample>>

\* _run_playbook lines 339-342 for the next matching playbook
RunPlaybook(t) ==
    /\ pc[t] = "dispatch"
    /\ LET i == Head(frame[t].matching)
       IN  /\ frame' = [frame EXCEPT ![t].run =
                            PlaybookRun(uuids + 1, playbooks[i], frame[t].event, clock),
                                     ![t].ai = 1]
           /\ playbooks' = [playbooks EXCEPT ![i].run_count = @ + 1, ![i].last_run = clock]
    /\ uuids' = uuids + 1
    /\ pc' = [pc EXCEPT ![t] = "action"]
    /\ UNCHANGED <<runs, events, investigations, counter, clock, ret, calls, sources, sample>>

\* process_event lines 333-336 once _run_playbook has returned `run`: the
\* run joins the local list and the history; the loop goes on or returns
Collect(t, run) ==
    LET lruns == Append(frame[t].lruns, run)
        rest == Tail(frame[t].matching)
    IN  /\ runs' = Append(runs, run)
        /\ frame' = [frame EXCEPT ![t].lruns = lruns, ![t].matching = rest,
                                  ![t].run = NoRun, ![t].ai = 0]
        /\ pc' = [pc EXCEPT ![t] = IF rest = <<>> THEN "done" ELSE "dispatch"]
        /\ ret' = [ret EXCEPT ![t] =
                IF rest = <<>> THEN [kind |-> "runs", runs |-> lruns, inv |-> NoId] ELSE @]

\* Variant: a run whose actions are all done gets no completion timestamp.
SucceedWithoutCompletion(run, now) == [run EXCEPT !.status = "success"]

\* _run_playbook lines 356 and 371: every action is done
Succeed(run, now) == [run EXCEPT !.status = "success", !.completed_at = now]

\* Variant: the except branch marks the run failed and appends no record.
FailWithoutRecord(run, what, now) ==
    [run EXCEPT !.status = "failed", !.completed_at = now]

\* _run_playbook lines 358-371: an action raised
Fail(run, what, now) ==
    [run EXCEPT !.status = "failed",
                !.actions_taken = Append(@, ErrorRecord(what)),
                !.completed_at = now]

\* Variant: the record of a completed action is put in front of the others.
RecordedInFront(t, run, result) ==
    LET pb == playbooks[Head(frame[t].matching)]
        action == pb.actions[frame[t].ai]
        run2 == [run EXCEPT !.actions_taken = <<ActionRecord(action, result)>> \o @]
    IN  IF frame[t].ai < Len(pb.actions)
        THEN /\ frame' = [frame EXCEPT ![t].run = run2, ![t].ai = @ + 1]
             /\ pc' = [pc EXCEPT ![t] = "action"]
             /\ UNCHANGED <<runs, ret>>
        ELSE Collect(t, Succeed(run2, clock))

\* _run_playbook lines 345-356 after an action returned: its record is
\* appended, then the next action runs or the run ends
Recorded(t, run, result) ==
    LET pb == playbooks[Head(frame[t].matching)]
        action == pb.actions[frame[t].ai]
        run2 == [run EXCEPT !.actions_taken = Append(@, ActionRecord(action, result))]
    IN  IF frame[t].ai < Len(pb.actions)
        THEN /\ frame' = [frame EXCEPT ![t].run = run2, ![t].ai = @ + 1]
             /\ pc' = [pc EXCEPT ![t] = "action"]
             /\ UNCHANGED <<runs, ret>>
        ELSE Collect(t, Succeed(run2, clock))

\* _execute_action for the next action of the running playbook.  An
\* investigate action calls the engine; the other kinds return at once.
ExecuteAction(t) ==
    /\ pc[t] = "action"
    /\ LET pb == playbooks[Head(frame[t].matching)]
           action == pb.actions[frame[t].ai]
       IN  IF action.action_type = "investigate"
           THEN /\ frame' = [frame EXCEPT ![t].alert = AlertForHolmes(frame[t].event)]
                /\ pc' = [pc EXCEPT ![t] = "investigate"]
                /\ UNCHANGED <<runs, ret>>
           ELSE IF ActionRaises(action)
           THEN Collect(t, Fail(frame[t].run, ExceptionText(action), clock))
           ELSE Recorded(t, frame[t].run, SimpleResult(action, frame[t].run))
    /\ UNCHANGED <<playbooks, events, investigations, counter, clock, uuids, calls, sources, sample>>

\* RobustaEventProcessor.register, called by the host while it sets up,
\* with its next playbook
Register ==
    /\ calls = 0
    /\ Len(playbooks) < Len(DefaultPlaybooks) + Len(CustomPlaybooks)
    /\ LET c == CustomPlaybooks[Len(playbooks) - Len(DefaultPlaybooks) + 1]
       IN  playbooks' = Append(playbooks, Playbook(uuids + 1, c.name, c.triggers, c.actions))
    /\ uuids' = uuids + 1
    /\ UNCHANGED <<runs, events, investigations, counter, clock, pc, frame, ret, calls, sources, sample>>

(***************************************************************************)
(* The investigation engine (HolmesRCA.investigate).                       *)
(***************************************************************************)
\* POST /api/holmes/investigate: the host calls the engine directly
HolmesInvestigate(t, alert) ==
    /\ CanStart(t)
    /\ frame' = [frame EXCEPT ![t] = [EmptyFrame EXCEPT !.kind = "investigate", !.alert = alert]]
    /\ pc' = [pc EXCEPT ![t] = "investigate"]
    /\ calls' = calls + 1
    /\ UNCHANGED <<playbooks, runs, events, investigations, counter, clock, uuids, ret, sources, sample>>

\* investigate lines 305-307: a new id, a pending investigation in the map
Investigate(t) ==
    /\ pc[t] = "investigate"
    /\ LET inv_id == _new_id(clock, counter + 1)
       IN  /\ investigations' =
                [i \in DOMAIN investigations \cup {inv_id} |->
                    IF i = inv_id THEN HolmesInvestigation(inv_id, frame[t].alert, clock)
                    ELSE investigations[i]]
           /\ frame' = [frame EXCEPT ![t].inv = inv_id]
    /\ counter' = counter + 1
    /\ pc' = [pc EXCEPT ![t] = "begin"]
    /\ UNCHANGED <<playbooks, runs, events, clock, uuids, ret, calls, sources, sample>>

\* investigate lines 308-320: status investigating, the first step is
\* logged and the log fetch is awaited
InvestigateBegin(t) ==
    /\ pc[t] = "begin"
    /\ investigations' = [investigations EXCEPT ![frame[t].inv] =
            add_step([@ EXCEPT !.status = "investigating"], "loki",
                     StepResult("fetching...", 0, 0, ""))]
    /\ pc' = [pc EXCEPT ![t] = "await_loki"]
    /\ UNCHANGED <<playbooks, runs, events, counter, clock, uuids, frame, ret, calls, sources, sample>>

\* investigate lines 320-332: the log fetch returns, one tick later; the error-like lines
\* are selected (which may raise); the metrics fetch is awaited
FetchLokiLogs(t, resp) ==
    /\ pc[t] = "await_loki"
    /\  LET now == clock + 1
            id == frame[t].inv
            service == Get(frame[t].alert, "service", Str("unknown"))
            logs == fetch_loki_logs(service, resp, now)
            inv1 == [investigations[id] EXCEPT !.log_evidence = logs]
            error_logs == WithKeyword(logs, ErrorKeywords)
        IN  /\ clock' = now
            /\ IF ErrorLogsRaise(logs)
               THEN /\ investigations' = [investigations EXCEPT ![id] =
                            Failed(inv1, StepErrorText(1), now)]
                    /\ frame' = [frame EXCEPT ![t].logs = logs]
                    /\ pc' = [pc EXCEPT ![t] = "return"]
               ELSE /\ investigations' = [investigations EXCEPT ![id] =
                            add_step(SetLastResult(inv1,
                                        StepResult("Found", Len(logs), Len(error_logs), "")),
                                     "victoria-metrics", StepResult("querying...", 0, 0, ""))]
                    /\ frame' = [frame EXCEPT ![t].logs = logs, ![t].error_logs = error_logs]
                    /\ pc' = [pc EXCEPT ![t] = "await_vm"]
    /\ UNCHANGED <<playbooks, runs, events, counter, uuids, ret, calls, sources, sample>>

\* investigate lines 333-342: the metrics fetch returns
FetchVmMetrics(t, resp, draw) ==
    /\ pc[t] = "await_vm"
    /\ LET id == frame[t].inv
           metrics == fetch_vm_metrics(resp, draw)
           inv1 == [investigations[id] EXCEPT !.metric_evidence = metrics]
       IN  /\ investigations' = [investigations EXCEPT ![id] =
                    add_step(SetLastResult(inv1,
                                StepResult("CPU/Memory/Up", metrics.cpu_usage_pct, metrics.memory_mb,
                                           IF metrics.up = 1 THEN "yes" ELSE "NO")),
                             "kubectl", StepResult("querying...", 0, 0, ""))]
           /\ frame' = [frame EXCEPT ![t].metrics = metrics]
    /\ pc' = [pc EXCEPT ![t] = "kubectl"]
    /\ UNCHANGED <<playbooks, runs, events, counter, clock, uuids, ret, calls, sources, sample>>

\* investigate lines 343-353: the resource description (which raises for a
\* service that is no str)
KubectlDescribe(t) ==
    /\ pc[t] = "kubectl"
    /\ LET id == frame[t].inv
           service == Get(frame[t].alert, "service", Str("unknown"))
           cluster == Get(frame[t].alert, "cluster", Str("local-docker"))
           k8s == kubectl_describe(service, cluster)
           restarts == k8s.containers[1].restart_count
           last_state == k8s.containers[1].last_state
           inv1 == [investigations[id] EXCEPT !.k8s_context = k8s]
       IN  IF KubectlRaises(service)
           THEN /\ investigations' = [investigations EXCEPT ![id] =
                        Failed(@, StepErrorText(3), clock)]
                /\ pc' = [pc EXCEPT ![t] = "return"]
                /\ UNCHANGED frame
           ELSE /\ investigations' = [investigations EXCEPT ![id] =
                        add_step(SetLastResult(inv1,
                                    StepResult("Pod status", restarts, 0, last_state)),
                                 "ai-engine", StepResult("analyzing...", 0, 0, ""))]
                /\ frame' = [frame EXCEPT ![t].restarts = restarts, ![t].last_state = last_state]
                /\ pc' = [pc EXCEPT ![t] = "analyze"]
    /\ UNCHANGED <<playbooks, runs, events, counter, clock, uuids, ret, calls, sources, sample>>

\* investigate lines 354-373: the classifier's verdict is stored and the
\* investigation completes
Analyze(t) ==
    /\ pc[t] = "analyze"
    /\ LET id == frame[t].inv
           inv == investigations[id]
           v == _analyze(frame[t].alert, frame[t].logs, frame[t].error_logs, frame[t].metrics,
                         inv.k8s_context, frame[t].restarts, frame[t].last_state)
       IN  investigations' = [investigations EXCEPT ![id] =
                [SetLastResult(inv, StepResult("Root cause identified", 0, 0, v.confidence))
                 EXCEPT !.root_cause = v.root_cause, !.ai_summary = v.summary,
                        !.findings = v.findings, !.recommendations = v.recommendations,
                        !.confidence = v.confidence,
                        !.status = "complete", !.completed_at = clock]]
    /\ pc' = [pc EXCEPT ![t] = "return"]
    /\ UNCHANGED <<playbooks, runs, events, counter, clock, uuids, frame, ret, calls, sources, sample>>

\* Variant: what is returned is the investigation the engine created last,
\* not the one this call created.
InvestigateReturnLatest(t) ==
    /\ pc[t] = "return"
    /\ LET inv == investigations[CHOOSE i \in DOMAIN investigations : i[2] = counter]
       IN  IF frame[t].kind = "investigate"
           THEN /\ ret' = [ret EXCEPT ![t] = [kind |-> "inv", runs |-> <<>>, inv |-> inv.id]]
                /\ pc' = [pc EXCEPT ![t] = "done"]
                /\ UNCHANGED <<runs, frame>>
           ELSE Recorded(t, Enrich(frame[t].run, inv), InvestigateResult(inv))
    /\ UNCHANGED <<playbooks, events, investigations, counter, clock, uuids, calls, sources, sample>>

\* investigate line 374: the investigation is returned, to the host or to
\* _execute_action (lines 395-403), which copies it into the run
InvestigateReturn(t) ==
    /\ pc[t] = "return"
    /\ LET inv == investigations[frame[t].inv]
       IN  IF frame[t].kind = "investigate"
           THEN /\ ret' = [ret EXCEPT ![t] = [kind |-> "inv", runs |-> <<>>, inv |-> inv.id]]
                /\ pc' = [pc EXCEPT ![t] = "done"]
                /\ UNCHANGED <<runs, frame>>
           ELSE Recorded(t, Enrich(frame[t].run, inv), InvestigateResult(inv))
    /\ UNCHANGED <<playbooks, events, investigations, counter, clock, uuids, calls, sources, sample>>

(***************************************************************************)
(* Accessors of the engine: what they return, and the calls themselves,    *)
(* made between the host's other calls; they read the map and change       *)
(* nothing.                                                                *)
(***************************************************************************)
\* The investigations in the order they were put into the map
InvList == [k \in 1..Cardinality(DOMAIN investigations) |->
              investigations[CHOOSE i \in DOMAIN investigations : i[2] = k]]

\* sorted(xs, key=started_at, reverse=True): stable
RECURSIVE SortedNewestFirst(_)
SortedNewestFirst(xs) ==
    IF xs = <<>> THEN <<>>
    ELSE LET rest == SortedNewestFirst(SubSeq(xs, 1, Len(xs) - 1))
             x == xs[Len(xs)]
             before == SelectSeq(rest, LAMBDA y : y.started_at >= x.started_at)
             after == SelectSeq(rest, LAMBDA y : y.started_at < x.started_at)
         IN  before \o <<x>> \o after

\* xs[:limit] for limit >= 0
Take(xs, limit) == SubSeq(xs, 1, IF limit < Len(xs) THEN limit ELSE Len(xs))

\* HolmesRCA.get
get(inv_id) ==
    IF inv_id \in DOMAIN investigations
    THEN [kind |-> "inv", items |-> <<investigations[inv_id]>>]
    ELSE [kind |-> "none", items |-> <<>>]

\* HolmesRCA.list_all
list_all(limit) == [kind |-> "list", items |-> Take(SortedNewestFirst(InvList), limit)]

Quiet == \A u \in Calls : pc[u] \in {"idle", "done"}

\* GET /api/holmes/investigations/{inv_id}
GetInvestigation(inv_id) ==
    /\ Quiet
    /\ get(inv_id).kind \in {"inv", "none"}
    /\ UNCHANGED vars

\* GET /api/holmes/investigations
ListInvestigations(limit) ==
    /\ Quiet
    /\ list_all(limit).kind = "list"
    /\ UNCHANGED vars

Limits == {0, 1, 30}

Next ==
    \/ \E t \in Calls, e \in Events : ProcessEvent(t, e)
    \/ \E t \in Calls : RunPlaybook(t)
    \/ \E t \in Calls : ExecuteAction(t)
    \/ \E t \in Calls, a \in Alerts : HolmesInvestigate(t, a)
    \/ \E t \in Calls : Investigate(t)
    \/ \E t \in Calls : InvestigateBegin(t)
    \/ \E t \in Calls, r \in LokiAnswers(sources.loki) : FetchLokiLogs(t, r)
    \/ \E t \in Calls, w \in SyntheticDraws : FetchVmMetrics(t, sources.vm, w)
    \/ \E t \in Calls : KubectlDescribe(t)
    \/ \E t \in Calls : Analyze(t)
    \/ \E t \in Calls : InvestigateReturn(t)
    \/ \E i \in DOMAIN investigations \cup {NoId} : GetInvestigation(i)
    \/ \E n \in Limits : ListInvestigations(n)

Spec == Init /\ [][Next]_vars

(***************************************************************************)
(* The classifier on its own: one evaluation of _analyze on evidence drawn *)
(* from the sets below, handed over as investigate does (lines 322-356).   *)
(***************************************************************************)
SampleAlerts ==
    { [service |-> Str("checkout"), alertname |-> Str("ServiceDown")],
      [service |-> Str("checkout"), alertname |-> Str("InstanceDown")],
      [service |-> Str("checkout"), alertname |-> Str("HighCPUUsage")],
      [service |-> Str("checkout"), name |-> Str("ServiceDown")],
      [service |-> Str("checkout")] }

SampleLogs ==
    { <<>>,
      <<LiveLine("GET /health 200")>>,
      <<LiveLine("GET /health 200"), LiveLine("upstream request timeout")>>,
      <<LiveLine("connection refused by peer")>>,
      <<LiveLine("panic: fatal error in worker")>>,
      <<LiveLine("Out of memory: Killed process 4242")>>,
      <<LiveLine("upstream request timeout"), LiveLine("Out of memory: Killed process 4242")>>,
      _synthetic_logs(Str("checkout"), 0) }

SampleCpu == {40, 80, 81, 90, 91, 95}
SampleMem == {100, 450, 451, 470}
SampleUp == {0, 1}
SampleRestarts == {0, 1, 2}
SampleLastState == {"", "Completed", "OOMKilled"}

InitAnalyze ==
    /\ sources = [loki |-> Unavailable, vm |-> <<Raise, Raise, Raise, Raise>>]
    /\ playbooks = DefaultPlaybooks
    /\ runs = <<>>
    /\ events = <<>>
    /\ investigations = [i \in {} |-> 0]
    /\ counter = 0
    /\ clock = 0
    /\ uuids = Len(DefaultPlaybooks)
    /\ pc = [t \in Calls |-> "idle"]
    /\ frame = [t \in Calls |-> EmptyFrame]
    /\ ret = [t \in Calls |-> NoRet]
    /\ calls = 0
    /\ \E a \in SampleAlerts, l \in SampleLogs, c \in SampleCpu, m \in SampleMem,
          u \in SampleUp, r \in SampleRestarts, ls \in SampleLastState :
          sample = [NoSample EXCEPT !.phase = "in", !.alert = a, !.logs = l,
                        !.metrics = [cpu_usage_pct |-> c, memory_mb |-> m, scrape_ms |-> 5, up |-> u],
                        !.restarts = r, !.last_state = ls]

AnalyzeSample ==
    /\ sample.phase = "in"
    /\ sample' = [sample EXCEPT !.phase = "out",
                    !.out = _analyze(sample.alert, sample.logs,
                                     WithKeyword(sample.logs, ErrorKeywords), sample.metrics,
                                     <<>>, sample.restarts, sample.last_state)]
    /\ UNCHANGED <<playbooks, runs, events, investigations, counter, clock, uuids,
                   pc, frame, ret, calls, sources>>

SpecAnalyze == InitAnalyze /\ [][AnalyzeSample]_vars

\* The same, with playbooks of the host registered during set-up.
NextRegister ==
    \/ Next
    \/ Register

SpecRegister == Init /\ [][NextRegister]_vars

(***************************************************************************)
(* Properties of the event router.                                         *)
(***************************************************************************)
\* The playbooks whose trigger list has a trigger matching e
MatchedBy(e) == {i \in 1..Len(playbooks) : PlaybookMatches(playbooks[i], e)}

\* process_event has returned to call t
EventCallDone(t) == pc[t] = "done" /\ frame[t].kind = "event"

\* The runs of the history that reference event e
RunsOf(e) == SelectSeq(runs, LAMBDA r : r.event["id"] = e["id"])

\* C1: when process_event has returned for an event that matches N >= 1 of
\* the registered playbooks, it has returned exactly N runs, the history
\* holds exactly those N runs for the event, they reference N pairwise
\* distinct playbook ids (those of the matching playbooks) and all reference
\* the same event, with the same event id.
C1_OneRunPerMatchingPlaybook ==
    \A t \in Calls :
        (EventCallDone(t) /\ Cardinality(MatchedBy(frame[t].event)) >= 1) =>
            LET e == frame[t].event
                rs == ret[t].runs
                N == Cardinality(MatchedBy(e))
            IN  /\ ret[t].kind = "runs"
                /\ Len(rs) = N
                /\ RunsOf(e) = rs
                /\ \A i, j \in 1..Len(rs) : i # j => rs[i].playbook_id # rs[j].playbook_id
                /\ {rs[i].playbook_id : i \in 1..Len(rs)} = {playbooks[i].id : i \in MatchedBy(e)}
                /\ \A i \in 1..Len(rs) : rs[i].event = e /\ rs[i].event["id"] = e["id"]

\* process_event has returned two runs or more for one event
C1_Witness ==
    \E t \in Calls : /\ EventCallDone(t)
                      /\ Cardinality(MatchedBy(frame[t].event)) >= 2
                      /\ Len(ret[t].runs) >= 2

\* C2: when process_event has returned for an event that no trigger of any
\* registered playbook matches, it has returned the empty run list, the
\* event is in the event log and no run references it.
C2_NoMatchStillLogged ==
    \A t \in Calls :
        (EventCallDone(t) /\ MatchedBy(frame[t].event) = {}) =>
            /\ ret[t] = [kind |-> "runs", runs |-> <<>>, inv |-> NoId]
            /\ \E i \in 1..Len(events) : events[i] = frame[t].event
            /\ RunsOf(frame[t].event) = <<>>

\* process_event has returned for an event that matches nothing
C2_Witness ==
    \E t \in Calls : /\ EventCallDone(t)
                      /\ MatchedBy(frame[t].event) = {}
                      /\ ret[t].kind = "runs"
                      /\ Len(events) >= t

(***************************************************************************)
(* Properties of the investigation engine.                                 *)
(***************************************************************************)
\* investigate has left its try block for this investigation (line 373)
Returned(inv) == inv.completed_at # -1

\* The four steps were logged in order and each result was recorded over
\* its placeholder
AllRecorded(inv) ==
    /\ [i \in 1..Len(inv.steps) |-> inv.steps[i].tool]
            = <<"loki", "victoria-metrics", "kubectl", "ai-engine">>
    /\ \A i \in 1..Len(inv.steps) :
            inv.steps[i].result.text \notin {"fetching...", "querying...", "analyzing..."}

\* C3: an investigation that investigate has returned is complete if and
\* only if the three evidence steps and the classify step each recorded
\* their result, and is failed otherwise.
C3_CompleteIffAllStepsRecorded ==
    \A id \in DOMAIN investigations :
        Returned(investigations[id]) =>
            /\ investigations[id].status \in {"complete", "failed"}
            /\ investigations[id].status = "complete" <=> AllRecorded(investigations[id])

\* one investigation has returned complete and another failed
C3_Witness ==
    \E a, b \in DOMAIN investigations :
        /\ Returned(investigations[a]) /\ investigations[a].status = "complete"
        /\ AllRecorded(investigations[a])
        /\ Returned(investigations[b]) /\ investigations[b].status = "failed"
        /\ ~AllRecorded(investigations[b])

\* One step of a status
StatusStep(a, b) ==
    \/ a = b
    \/ <<a, b>> \in {<<"pending", "investigating">>, <<"investigating", "complete">>,
                     <<"investigating", "failed">>}

\* C4: in every step (of investigate, get, list_all and the rest) each
\* investigation stays in the map and its status stays or moves
\* pending -> investigating, investigating -> complete or
\* investigating -> failed; an investigation enters the map pending.
C4_StatusMovesForward ==
    [][ /\ DOMAIN investigations \subseteq DOMAIN investigations'
        /\ \A id \in DOMAIN investigations :
                StatusStep(investigations[id].status, investigations'[id].status)
        /\ \A id \in DOMAIN investigations' \ DOMAIN investigations :
                investigations'[id].status = "pending" ]_vars

\* an investigation is complete or failed while a later one has finished too
C4_Witness ==
    \E a, b \in DOMAIN investigations :
        /\ a # b
        /\ investigations[a].status \in {"complete", "failed"}
        /\ investigations[b].started_at >= investigations[a].completed_at
        /\ investigations[b].status \in {"complete", "failed"}
        /\ Quiet

(***************************************************************************)
(* Properties of the classifier.                                           *)
(***************************************************************************)
\* Some line of `lines` has one of the words
Mentions(lines, words) == \E i \in 1..Len(lines) : LineWords(lines[i]) \cap words # {}

\* The error-like lines of the classified sample
SampleErrorLike == SelectSeq(sample.logs, LAMBDA l : LineWords(l) \cap ErrorKeywords # {})

SampleAlertName ==
    IF "alertname" \in DOMAIN sample.alert THEN sample.alert["alertname"]
    ELSE IF "name" \in DOMAIN sample.alert THEN sample.alert["name"]
    ELSE Str("UnknownAlert")

\* The verdict of the classified sample: category and confidence
SampleVerdict == <<sample.out.root_cause.template, sample.out.confidence>>

\* The ordered list of rules, read off the inputs of the sample
FirstMatchingRule ==
    LET cpu == sample.metrics.cpu_usage_pct
        mem == sample.metrics.memory_mb
        up == sample.metrics.up
    IN  IF \/ Mentions(SampleErrorLike, {"OOM", "KILLED"})
           \/ sample.last_state = "OOMKilled"
           \/ (mem > 450 /\ sample.restarts > 0)
        THEN <<"oom", "high">>
        ELSE IF up = 0 \/ SampleAlertName \in {Str("ServiceDown"), Str("InstanceDown")}
        THEN <<"unreachable", "high">>
        ELSE IF cpu > 80
        THEN <<"cpu", IF cpu > 90 THEN "high" ELSE "medium">>
        ELSE IF Mentions(SampleErrorLike, {"TIMEOUT", "DEADLINE", "CONNECTION REFUSED"})
        THEN <<"dependency", "medium">>
        ELSE <<"anomaly", "low">>

\* C5: for every alert name, error-like logs, metrics, restart count and
\* last container state, _analyze returns the verdict of the first matching
\* rule of the ordered list: out-of-memory (high), unreachable (high), CPU
\* exhaustion (high above 90, else medium), dependency failure (medium),
\* else unclassified anomaly (low).
C5_FirstMatchingRuleWins ==
    sample.phase = "out" => SampleVerdict = FirstMatchingRule

\* the CPU rule gave its verdict although the dependency rule was eligible too
C5_Witness ==
    /\ sample.phase = "out"
    /\ sample.metrics.cpu_usage_pct = 81
    /\ Mentions(SampleErrorLike, {"TIMEOUT"})
    /\ SampleAlertName = Str("HighCPUUsage")
    /\ SampleVerdict = <<"cpu", "medium">>

\* C6: with memory 470 MB, restart count 1 and no OOM keyword in any log
\* line, the verdict is out-of-memory with confidence high, whatever the
\* CPU, the liveness and the alert name are.
C6_MemoryAndRestartIsOom ==
    ( /\ sample.phase = "out"
      /\ sample.metrics.memory_mb = 470
      /\ sample.restarts = 1
      /\ ~Mentions(sample.logs, {"OOM", "KILLED", "OOMKILL"}) )
    => SampleVerdict = <<"oom", "high">>

\* such a sample with CPU above 80, the service up and the last state not
\* OOMKilled
C6_Witness ==
    /\ sample.phase = "out"
    /\ sample.metrics.memory_mb = 470
    /\ sample.restarts = 1
    /\ ~Mentions(sample.logs, {"OOM", "KILLED", "OOMKILL"})
    /\ sample.metrics.cpu_usage_pct > 80
    /\ sample.metrics.up = 1
    /\ sample.last_state = "Completed"
    /\ SampleVerdict = <<"oom", "high">>

\* The inputs the fallback example fixes
FallbackExample ==
    /\ sample.phase = "out"
    /\ sample.metrics.up = 1
    /\ sample.metrics.cpu_usage_pct = 40
    /\ sample.metrics.memory_mb = 100
    /\ SampleErrorLike = <<>>
    /\ sample.restarts = 0

\* C7 as stated: liveness 1, CPU 40, memory 100, no error-like logs and
\* restart count 0 give the unclassified-anomaly verdict with confidence low.
C7_AsStated ==
    FallbackExample => SampleVerdict = <<"anomaly", "low">>

\* C7, amended: liveness 1, CPU 40, memory 100, no error-like logs and
\* restart count 0 give the unclassified-anomaly verdict with confidence
\* low provided the alert name is neither ServiceDown nor InstanceDown and
\* the last container state is not OOMKilled.
C7_FallbackVerdict ==
    ( /\ FallbackExample
      /\ SampleAlertName \notin {Str("ServiceDown"), Str("InstanceDown")}
      /\ sample.last_state # "OOMKilled" )
    => SampleVerdict = <<"anomaly", "low">>

\* the fallback example, classified as an unclassified anomaly
C7_Witness ==
    /\ FallbackExample
    /\ SampleAlertName = Str("HighCPUUsage")
    /\ sample.last_state = "Completed"
    /\ sample.logs # <<>>
    /\ SampleVerdict = <<"anomaly", "low">>

(***************************************************************************)
(* End-to-end scenarios.                                                   *)
(***************************************************************************)
\* e is `base` as the router stamped it
Stamped(e, base) ==
    /\ DOMAIN e = DOMAIN base \cup {"id", "received_at"}
    /\ \A k \in DOMAIN base : e[k] = base[k]

ServiceDownEvent ==
    [alertname |-> Str("ServiceDown"), service |-> Str("checkout"),
     cluster |-> Str("prod-1"), status |-> Str("down")]

CpuEvent == [metric |-> Str("cpu"), value |-> Num(95), service |-> Str("api")]

\* process_event has returned to call t for the scenario's event
ScenarioDone(t, base) == EventCallDone(t) /\ Stamped(frame[t].event, base)

\* The run of the named playbook among those returned to call t
RunOf(t, name) ==
    ret[t].runs[CHOOSE i \in 1..Len(ret[t].runs) : ret[t].runs[i].playbook_name = name]

HasRunOf(t, name) == \E i \in 1..Len(ret[t].runs) : ret[t].runs[i].playbook_name = name

\* C8 as stated: the ServiceDown event for checkout matches on_service_down;
\* the investigation has confidence high and a root cause containing 'not
\* responding to health checks'; the run is a success and its enrichment
\* confidence is high.
C8_AsStated ==
    \A t \in Calls :
        ScenarioDone(t, ServiceDownEvent) =>
            /\ HasRunOf(t, "on_service_down")
            /\ LET r == RunOf(t, "on_service_down")
                   inv == investigations[r.investigation_id]
               IN  /\ inv.confidence = "high"
                   /\ "not responding to health checks" \in Phrases(inv.root_cause.template)
                   /\ r.status = "success"
                   /\ r.enrichment["confidence"] = "high"

\* The fetched log lines are all strings and none contains OOM or KILLED
LogsWithoutOom(inv) ==
    /\ \A i \in 1..Len(inv.log_evidence) : inv.log_evidence[i].str
    /\ ~Mentions(inv.log_evidence, {"OOM", "KILLED"})

\* C8, amended: the ServiceDown event for checkout matches on_service_down
\* only and its run is a success; if the log lines fetched for the
\* investigation are all strings and none contains OOM or KILLED, the
\* investigation is complete with confidence high and a root cause containing
\* 'not responding to health checks', and the run's enrichment carries that
\* root cause with confidence high.
C8_ServiceDownScenario ==
    \A t \in Calls :
        ScenarioDone(t, ServiceDownEvent) =>
            /\ Len(ret[t].runs) = 1
            /\ HasRunOf(t, "on_service_down")
            /\ LET r == RunOf(t, "on_service_down")
                   inv == investigations[r.investigation_id]
               IN  /\ r.status = "success"
                   /\ LogsWithoutOom(inv) =>
                        /\ inv.status = "complete"
                        /\ inv.confidence = "high"
                        /\ "not responding to health checks" \in Phrases(inv.root_cause.template)
                        /\ r.enrichment["confidence"] = "high"
                        /\ r.enrichment["root_cause"] = inv.root_cause

\* the scenario has run with live log lines and a service that is up
C8_Witness ==
    \E t \in Calls :
        /\ ScenarioDone(t, ServiceDownEvent)
        /\ HasRunOf(t, "on_service_down")
        /\ LET r == RunOf(t, "on_service_down")
               inv == investigations[r.investigation_id]
           IN  /\ LogsWithoutOom(inv)
               /\ inv.log_evidence # <<>>
               /\ inv.status = "complete"
               /\ inv.metric_evidence.up = 1
               /\ inv.root_cause.template = "unreachable"
               /\ r.enrichment["confidence"] = "high"

\* C9 as stated: the event {metric: cpu, value: 95, service: api} matches
\* on_high_cpu and its investigation is classified CPU exhaustion with
\* confidence high.
C9_AsStated ==
    \A t \in Calls :
        ScenarioDone(t, CpuEvent) =>
            /\ HasRunOf(t, "on_high_cpu")
            /\ LET inv == investigations[RunOf(t, "on_high_cpu").investigation_id]
               IN  /\ inv.root_cause.template = "cpu"
                   /\ inv.confidence = "high"

\* C9, amended: the event {metric: cpu, value: 95, service: api} matches
\* on_high_cpu only; its investigation is classified CPU exhaustion with
\* confidence high exactly when it completes with a metrics snapshot whose
\* CPU is above 90 and whose liveness is not 0 and with no log line
\* containing OOM or KILLED: the event's value is not consulted.
C9_HighCpuScenario ==
    \A t \in Calls :
        ScenarioDone(t, CpuEvent) =>
            /\ Len(ret[t].runs) = 1
            /\ HasRunOf(t, "on_high_cpu")
            /\ LET inv == investigations[RunOf(t, "on_high_cpu").investigation_id]
               IN  (inv.root_cause.template = "cpu" /\ inv.confidence = "high")
                   <=> ( /\ inv.status = "complete"
                         /\ inv.metric_evidence.cpu_usage_pct > 90
                         /\ inv.metric_evidence.up # 0
                         /\ ~Mentions(inv.log_evidence, {"OOM", "KILLED"}) )

\* the scenario has run with a snapshot whose CPU is above 90
C9_Witness ==
    \E t \in Calls :
        /\ ScenarioDone(t, CpuEvent)
        /\ HasRunOf(t, "on_high_cpu")
        /\ LET inv == investigations[RunOf(t, "on_high_cpu").investigation_id]
           IN  /\ inv.status = "complete"
               /\ inv.metric_evidence.cpu_usage_pct > 90
               /\ inv.root_cause.template = "cpu"
               /\ inv.confidence = "high"

(***************************************************************************)
(* Failure of an action.                                                   *)
(***************************************************************************)
\* The position of the first raising action of a playbook, 0 without one
FirstRaising(pb) ==
    IF \E i \in 1..Len(pb.actions) : ActionRaises(pb.actions[i])
    THEN CHOOSE i \in 1..Len(pb.actions) :
            /\ ActionRaises(pb.actions[i])
            /\ \A j \in 1..(i - 1) : ~ActionRaises(pb.actions[j])
    ELSE 0

PlaybookWithId(id) == playbooks[CHOOSE i \in 1..Len(playbooks) : playbooks[i].id = id]

ErrorRecords(r) == {j \in 1..Len(r.actions_taken) : r.actions_taken[j].action = "error"}

\* C10: when process_event has returned, every matched playbook has its own
\* run; the run of a playbook with a raising action is failed and holds the
\* records of the actions before the raising one followed by exactly one
\* 'error' record with the exception text, and nothing of the actions after
\* it; the run of a playbook without one is a success with one record per
\* action.
C10_FailureIsContained ==
    \A t \in Calls :
        EventCallDone(t) =>
            /\ {ret[t].runs[i].playbook_id : i \in 1..Len(ret[t].runs)}
                    = {playbooks[i].id : i \in MatchedBy(frame[t].event)}
            /\ \A i \in 1..Len(ret[t].runs) :
                    LET r == ret[t].runs[i]
                        pb == PlaybookWithId(r.playbook_id)
                        k == FirstRaising(pb)
                    IN  IF k > 0
                        THEN /\ r.status = "failed"
                             /\ Len(r.actions_taken) = k
                             /\ \A j \in 1..(k - 1) :
                                    /\ r.actions_taken[j].action = pb.actions[j].name
                                    /\ r.actions_taken[j].type = pb.actions[j].action_type
                             /\ ErrorRecords(r) = {k}
                             /\ r.actions_taken[k].type = "error"
                             /\ r.actions_taken[k].result.text = ExceptionText(pb.actions[k])
                        ELSE /\ r.status = "success"
                             /\ [j \in 1..Len(r.actions_taken) |-> r.actions_taken[j].action]
                                    = [j \in 1..Len(pb.actions) |-> pb.actions[j].name]

\* a run failed after a completed action, with an action left undone, and
\* the playbook matched after it ran to success
C10_Witness ==
    \E t \in Calls :
        /\ EventCallDone(t)
        /\ \E i, j \in 1..Len(ret[t].runs) :
                /\ i < j
                /\ ret[t].runs[i].status = "failed"
                /\ Len(ret[t].runs[i].actions_taken) >= 2
                /\ Len(ret[t].runs[i].actions_taken)
                        <= Len(PlaybookWithId(ret[t].runs[i].playbook_id).actions)
                /\ ret[t].runs[j].status = "success"

(***************************************************************************)
(* Order of the actions of a run.                                          *)
(***************************************************************************)
\* The run call t is executing, if any
InFlight(t) == frame[t].kind = "event" /\ pc[t] \notin {"idle", "dispatch", "done"}

\* Every run there is: those being executed, those of the history and
\* those returned
AllRuns ==
    {frame[t].run : t \in {u \in Calls : InFlight(u)}}
        \cup {runs[i] : i \in 1..Len(runs)}
        \cup UNION {{ret[t].runs[i] : i \in 1..Len(ret[t].runs)} : t \in Calls}

\* Name and kind of the records of a run that are no error records
Executed(r) ==
    LET done == SelectSeq(r.actions_taken, LAMBDA a : a.action # "error")
    IN  [j \in 1..Len(done) |-> <<done[j].action, done[j].type>>]

\* Name and kind of the actions a playbook declares
Declared(pb) == [j \in 1..Len(pb.actions) |-> <<pb.actions[j].name, pb.actions[j].action_type>>]

IsPrefix(a, b) == Len(a) <= Len(b) /\ a = SubSeq(b, 1, Len(a))

\* C11: at every point the records of a run that are no error records are,
\* in order, a prefix of the action list its playbook declares (names and
\* kinds); the action being executed is the one after that prefix; on a
\* successful run the records are the whole list.
C11_ActionsInDeclaredOrder ==
    /\ \A r \in AllRuns :
            /\ IsPrefix(Executed(r), Declared(PlaybookWithId(r.playbook_id)))
            /\ r.status = "success" => Executed(r) = Declared(PlaybookWithId(r.playbook_id))
    /\ \A t \in Calls :
            InFlight(t) => frame[t].ai = Len(Executed(frame[t].run)) + 1

\* a run is two actions into a playbook of three or more, and a run of
\* three actions or more has succeeded
C11_Witness ==
    /\ \E t \in Calls :
            /\ InFlight(t)
            /\ Len(Executed(frame[t].run)) = 2
            /\ Len(PlaybookWithId(frame[t].run.playbook_id).actions) >= 3
    /\ \E i \in 1..Len(runs) : runs[i].status = "success" /\ Len(Executed(runs[i])) >= 3

(***************************************************************************)
(* Events with missing and wrongly typed fields.  One event, drawn from    *)
(* the set below, is sent by every call of the host; the host may register *)
(* a playbook of its own before its first call.                            *)
(***************************************************************************)
\* A playbook of the host with two triggers and two investigate actions
HostPlaybooks ==
    << [name |-> "host_recheck",
        triggers |-> <<"custom:severity", "on_prometheus_alert:ServiceDown">>,
        actions |-> << PlaybookAction("first_look", "investigate", NoParams),
                       PlaybookAction("page_on_call", "notify", NoParams),
                       PlaybookAction("second_look", "investigate", NoParams) >>] >>

\* RobustaEventProcessor.register, called once by the host while it sets up
RegisterHost ==
    /\ calls = 0
    /\ Len(playbooks) = Len(DefaultPlaybooks)
    /\ LET c == HostPlaybooks[1]
       IN  playbooks' = Append(playbooks, Playbook(uuids + 1, c.name, c.triggers, c.actions))
    /\ uuids' = uuids + 1
    /\ UNCHANGED <<runs, events, investigations, counter, clock, pc, frame, ret, calls, sources, sample>>

AlertnameFields ==
    {EmptyDict, "alertname" :> Str("ServiceDown"), "alertname" :> Str("OOMKilled"),
     "alertname" :> Num(7)}
MetricFields == {EmptyDict, "metric" :> Str("cpu"), "metric" :> Num(1)}
ValueFields ==
    {EmptyDict, "value" :> Num(95), "value" :> Str("95"), "value" :> Str("high"),
     "value" :> None}
SeverityFields == {EmptyDict, "severity" :> Str("critical"), "severity" :> Num(2)}

MatchEvents ==
    {a @@ m @@ v @@ s : a \in AlertnameFields, m \in MetricFields,
                        v \in ValueFields, s \in SeverityFields}

InitMatch ==
    /\ sources = [loki |-> [kind |-> "ok", lines |-> <<LiveLine("GET /health 200"),
                                                      LiveLine("upstream request timeout")>>],
                  vm |-> <<Ok(40), Ok(100), Ok(5), Ok(1)>>]
    /\ playbooks = DefaultPlaybooks
    /\ runs = <<>>
    /\ events = <<>>
    /\ investigations = [i \in {} |-> 0]
    /\ counter = 0
    /\ clock = 0
    /\ uuids = Len(DefaultPlaybooks)
    /\ pc = [t \in Calls |-> "idle"]
    /\ frame = [t \in Calls |-> EmptyFrame]
    /\ ret = [t \in Calls |-> NoRet]
    /\ calls = 0
    /\ \E e \in MatchEvents : sample = [phase |-> "event", event |-> e]

NextMatch ==
    \/ RegisterHost
    \/ \E t \in Calls : ProcessEvent(t, sample.event)
    \/ \E t \in Calls : RunPlaybook(t)
    \/ \E t \in Calls : ExecuteAction(t)
    \/ \E t \in Calls : Investigate(t)
    \/ \E t \in Calls : InvestigateBegin(t)
    \/ \E t \in Calls, r \in LokiAnswers(sources.loki) : FetchLokiLogs(t, r)
    \/ \E t \in Calls, w \in SyntheticDraws : FetchVmMetrics(t, sources.vm, w)
    \/ \E t \in Calls : KubectlDescribe(t)
    \/ \E t \in Calls : Analyze(t)
    \/ \E t \in Calls : InvestigateReturn(t)

SpecMatch == InitMatch /\ [][NextMatch]_vars

\* What the predicates of a playbook's triggers evaluate to on event e
Evaluations(pb, e) == {Condition(pb.triggers[k], e) : k \in 1..Len(pb.triggers)}

\* process_event returned to call t a run of playbook pb
HasRunFor(t, pb) == \E j \in 1..Len(ret[t].runs) : ret[t].runs[j].playbook_id = pb.id

\* C12: whatever fields the event lacks or carries with a wrong type,
\* process_event returns its list of runs, and it holds a run of a playbook
\* if and only if the predicate of at least one of the playbook's triggers
\* evaluated to true; a predicate that raised counts as false and stops
\* neither the playbook's other triggers nor the other playbooks.
C12_RaisingTriggerIsNoMatch ==
    \A t \in Calls :
        EventCallDone(t) =>
            /\ ret[t].kind = "runs"
            /\ \A i \in 1..Len(playbooks) :
                    HasRunFor(t, playbooks[i]) <=> "T" \in Evaluations(playbooks[i], frame[t].event)

\* a playbook whose only predicate raised has no run, and a playbook after
\* it, whose first predicate raised and whose second matched, has one
C12_Witness ==
    \E t \in Calls :
        /\ EventCallDone(t)
        /\ \E i, j \in 1..Len(playbooks) :
                /\ i < j
                /\ Evaluations(playbooks[i], frame[t].event) = {"X"}
                /\ ~HasRunFor(t, playbooks[i])
                /\ Len(playbooks[j].triggers) = 2
                /\ Condition(playbooks[j].triggers[1], frame[t].event) = "X"
                /\ Condition(playbooks[j].triggers[2], frame[t].event) = "T"
                /\ HasRunFor(t, playbooks[j])

(***************************************************************************)
(* Order of the steps of an investigation.                                 *)
(***************************************************************************)
StepOrder == <<"loki", "victoria-metrics", "kubectl", "ai-engine">>

Tools(inv) == [i \in 1..Len(inv.steps) |-> inv.steps[i].tool]

\* The step's result is still the placeholder written when it was invoked
Outstanding(step) == step.result.text \in {"fetching...", "querying...", "analyzing..."}

\* The number of the step call t is waiting for, 0 when it waits for none
Awaited(t) ==
    CASE pc[t] = "await_loki" -> 1
      [] pc[t] = "await_vm" -> 2
      [] pc[t] = "kubectl" -> 3
      [] pc[t] = "analyze" -> 4
      [] OTHER -> 0

\* C13: the steps invoked for an investigation are, in order, a prefix of
\* log fetch, metrics fetch, resource description, classification, so
\* each is invoked at most once; every step before the last one invoked
\* has returned its result; and the step a call waits for is the last one
\* invoked.
C13_StepsInOrder ==
    /\ \A id \in DOMAIN investigations :
            /\ IsPrefix(Tools(investigations[id]), StepOrder)
            /\ \A i \in 1..(Len(investigations[id].steps) - 1) :
                    ~Outstanding(investigations[id].steps[i])
    /\ \A t \in Calls :
            Awaited(t) > 0 =>
                /\ Len(investigations[frame[t].inv].steps) = Awaited(t)
                /\ Outstanding(investigations[frame[t].inv].steps[Awaited(t)])

\* the classification is awaited after the three fetches have returned
C13_Witness ==
    \E t \in Calls :
        /\ Awaited(t) = 4
        /\ Tools(investigations[frame[t].inv]) = StepOrder
        /\ \A i \in 1..3 : ~Outstanding(investigations[frame[t].inv].steps[i])

(***************************************************************************)
(* Failure of a step of an investigation.                                  *)
(***************************************************************************)
\* The step of the investigation that raises on the evidence it got, 0
\* when none does
RaisingStep(inv) ==
    IF ErrorLogsRaise(inv.log_evidence) THEN 1
    ELSE IF Len(inv.steps) >= 3 /\ KubectlRaises(Get(inv.alert, "service", Str("unknown"))) THEN 3
    ELSE 0

SampleServices == {Str("checkout"), Str("memory-hog"), Num(42)}

\* every combination of the four queries' outcomes
SampleVm ==
    {<<a, b, c, d>> : a \in {Ok(95), Empty, Non200, Raise},
                      b \in {Ok(100), Empty, Non200, Raise},
                      c \in {Ok(5), Empty, Non200, Raise},
                      d \in {Ok(1), Empty, Non200, Raise}}

MetricKeys == {"cpu_usage_pct", "memory_mb", "scrape_ms", "up"}
QueryKey == <<"cpu_usage_pct", "memory_mb", "scrape_ms", "up">>

NoDescription == [status |-> "", cluster |-> None, containers |-> <<>>, events |-> <<>>]

InitAdapters ==
    /\ playbooks = DefaultPlaybooks
    /\ runs = <<>>
    /\ events = <<>>
    /\ investigations = [i \in {} |-> 0]
    /\ counter = 0
    /\ clock = 0
    /\ uuids = Len(DefaultPlaybooks)
    /\ pc = [t \in Calls |-> "idle"]
    /\ frame = [t \in Calls |-> EmptyFrame]
    /\ ret = [t \in Calls |-> NoRet]
    /\ calls = 0
    /\ \E l \in LokiStates, v \in SampleVm : sources = [loki |-> l, vm |-> v]
    /\ \E s \in SampleServices :
          sample = [phase |-> "logs", service |-> s, raised |-> {},
                    logs1 |-> <<>>, logs2 |-> <<>>,
                    metrics |-> NoMetrics, k8s |-> NoDescription]

\* await self.tools.fetch_loki_logs(service, start, end), a first time
FetchLogsSample ==
    /\ sample.phase = "logs"
    /\ clock' = clock + 1
    /\ \E r \in LokiAnswers(sources.loki) :
          sample' = [sample EXCEPT !.phase = "logs_again",
                                   !.logs1 = fetch_loki_logs(sample.service, r, clock')]
    /\ UNCHANGED <<playbooks, runs, events, investigations, counter, uuids,
                   pc, frame, ret, calls, sources>>

\* ... and a second time, later
FetchLogsAgainSample ==
    /\ sample.phase = "logs_again"
    /\ clock' = clock + 1
    /\ \E r \in LokiAnswers(sources.loki) :
          sample' = [sample EXCEPT !.phase = "metrics",
                                   !.logs2 = fetch_loki_logs(sample.service, r, clock')]
    /\ UNCHANGED <<playbooks, runs, events, investigations, counter, uuids,
                   pc, frame, ret, calls, sources>>

\* await self.tools.fetch_vm_metrics(service, cluster, end)
FetchMetricsSample ==
    /\ sample.phase = "metrics"
    /\ \E w \in SyntheticDraws :
          sample' = [sample EXCEPT !.phase = "describe",
                                   !.metrics = fetch_vm_metrics(sources.vm, w)]
    /\ UNCHANGED <<playbooks, runs, events, investigations, counter, clock, uuids,
                   pc, frame, ret, calls, sources>>

\* await self.tools.kubectl_describe(service, cluster)
DescribeSample ==
    /\ sample.phase = "describe"
    /\ sample' = IF KubectlRaises(sample.service)
                 THEN [sample EXCEPT !.phase = "done", !.raised = @ \cup {"kubectl_describe"}]
                 ELSE [sample EXCEPT !.phase = "done",
                                     !.k8s = kubectl_describe(sample.service, Str("prod-1"))]
    /\ UNCHANGED <<playbooks, runs, events, investigations, counter, clock, uuids,
                   pc, frame, ret, calls, sources>>

NextAdapters ==
    \/ FetchLogsSample
    \/ FetchLogsAgainSample
    \/ FetchMetricsSample
    \/ DescribeSample

SpecAdapters == InitAdapters /\ [][NextAdapters]_vars

(***************************************************************************)
(* C15  Whatever the service identifier and whatever the backing source    *)
(* does, each of the three adapters returns an evidence sample and none    *)
(* of them raises to its caller.                                           *)
(***************************************************************************)
C15_AdaptersNeverRaise ==
    /\ sample.raised = {}
    /\ sample.phase = "done" => sample.k8s # NoDescription



(***************************************************************************)
(* C16  The metrics adapter always returns a mapping with exactly the four *)
(* keys cpu_usage_pct, memory_mb, scrape_ms and up; when some of the four  *)
(* queries fail, each failed query's key holds 0.0 and the key of every    *)
(* query that succeeded holds the value fetched.                           *)
(***************************************************************************)
\* The queries are sent one after the other, and a query that raises ends
\* the loop: query i is sent when none before it raised.
Sent(resp, i) == \A j \in 1..(i - 1) : resp[j].kind # "raise"
\* query i was sent and came back with a value
Succeeded(resp, i) == Sent(resp, i) /\ resp[i].kind = "ok"
\* query i was sent and failed (error status, timeout, malformed body)
QueryFailed(resp, i) == Sent(resp, i) /\ resp[i].kind \in {"non200", "raise"}

MetricsReturned == sample.phase \in {"describe", "done"}

C16_FailedQueryIsZeroOthersKept ==
    MetricsReturned =>
        /\ DOMAIN sample.metrics = MetricKeys
        /\ (\E i \in 1..4 : Succeeded(sources.vm, i)) =>
              \A i \in 1..4 :
                 /\ Succeeded(sources.vm, i) =>
                       sample.metrics[QueryKey[i]] = sources.vm[i].v
                 /\ QueryFailed(sources.vm, i) => sample.metrics[QueryKey[i]] = 0


(***************************************************************************)
(* C17  The resource description is determined by the service name: for a  *)
(* name containing "memory" the first container reports restart count 1    *)
(* and last state OOMKilled and the description carries exactly one        *)
(* OOMKilling warning event; for every other name it reports restart count *)
(* 0, last state Completed and no events.                                  *)
(***************************************************************************)
\* kubectl_describe was called with a service name and has returned
Described == sample.phase = "done" /\ sample.service.t = "str"

C17_MemoryServiceHasOneRestart ==
    Described =>
        /\ sample.k8s = kubectl_describe(sample.service, Str("prod-1"))
        /\ LET first == sample.k8s.containers[1]
               warnings == sample.k8s.events
           IN  IF "MEMORY" \in Has(sample.service.s)
               THEN /\ first.restart_count = 1
                    /\ first.last_state = "OOMKilled"
                    /\ Len(warnings) = 1
                    /\ warnings[1].type = "Warning"
                    /\ warnings[1].reason = "OOMKilling"
               ELSE /\ first.restart_count = 0
                    /\ first.last_state = "Completed"
                    /\ warnings = <<>>


(***************************************************************************)
(* C18  With the log source unreachable, two calls of the log adapter for  *)
(* the same service return the same nine synthetic entries in the same     *)
(* order, with severities INFO, INFO, INFO, WARN, WARN, ERROR, ERROR,      *)
(* WARN, ERROR and the same messages; only the timestamps differ.          *)
(***************************************************************************)
\* both calls of the log adapter have returned
LogsReturnedTwice == sample.phase \in {"metrics", "describe", "done"}

\* the entry's text after its timestamp and level: "[service] message"
Message(l) == SubSeq(l.parts, 2, Len(l.parts))
\* the entry's timestamp: now - timedelta(seconds=secs_ago)
Timestamp(l) == l.at - l.ago
Severities(logs) == [i \in DOMAIN logs |-> logs[i].level]

C18_SyntheticLogsRepeat ==
    (LogsReturnedTwice /\ sources.loki = Unavailable) =>
        /\ Len(sample.logs1) = 9
        /\ Len(sample.logs2) = 9
        /\ Severities(sample.logs1) =
              <<"INFO", "INFO", "INFO", "WARN", "WARN", "ERROR", "ERROR", "WARN", "ERROR">>
        /\ Severities(sample.logs2) = Severities(sample.logs1)
        /\ \A i \in 1..9 :
              /\ Message(sample.logs1[i]) = Message(sample.logs2[i])
              /\ Message(sample.logs1[i]) = <<StrOf(sample.service), SyntheticEntries[i][3]>>
              /\ [sample.logs1[i] EXCEPT !.at = 0] = [sample.logs2[i] EXCEPT !.at = 0]
              /\ Timestamp(sample.logs1[i]) # Timestamp(sample.logs2[i])

\* the two calls have returned synthetic entries for a named service, the
\* first after a connection failure and the second after an error status
C18_Witness ==
    /\ LogsReturnedTwice
    /\ sources.loki = Unavailable
    /\ sample.service = Str("checkout")
    /\ Len(sample.logs1) = 9
    /\ sample.logs1 # sample.logs2
    /\ sample.logs2[7].level = "ERROR"
    /\ "OOMKILL" \in LineWords(sample.logs2[7])


(***************************************************************************)
(* The host's calls with a playbook of the host, one that investigates     *)
(* twice, registered during set-up.                                        *)
(***************************************************************************)
NextEnrich ==
    \/ Next
    \/ RegisterHost

SpecEnrich == Init /\ [][NextEnrich]_vars

\* the records of run r made by investigate actions
InvestigateRecords(r) == SelectSeq(r.actions_taken, LAMBDA a : a.type = "investigate")

\* every key of `before` is a key of `after`, with the same value
Additive(before, after) ==
    \A k \in DOMAIN before : k \in DOMAIN after /\ after[k] = before[k]

(***************************************************************************)
(* C19  A run's enrichment is empty until an investigate action of the run *)
(* has completed; an action of another kind leaves the enrichment as it    *)
(* is; and no key or value written by one action is removed or replaced    *)
(* by a later action of the run.                                           *)
(***************************************************************************)
C19_EnrichmentIsAdditive ==
    /\ [](\A r \in AllRuns : InvestigateRecords(r) = <<>> => r.enrichment = EmptyDict)
    /\ [][\A r \in AllRuns : \A q \in AllRuns' :
             q.id = r.id =>
                /\ q.enrichment # r.enrichment =>
                      /\ Len(q.actions_taken) = Len(r.actions_taken) + 1
                      /\ q.actions_taken[Len(q.actions_taken)].type = "investigate"
                /\ Additive(r.enrichment, q.enrichment)]_vars


(***************************************************************************)
(* C20  Every run returned by process_event or held in the run history is  *)
(* terminal: its status is success or failed, never running, and its       *)
(* completion timestamp is set; and its status is success exactly when one *)
(* record was appended for every declared action and no error record was.  *)
(***************************************************************************)
\* the runs of the history and the runs returned to the host
FinishedRuns ==
    {runs[i] : i \in 1..Len(runs)}
        \cup UNION {{ret[t].runs[i] : i \in 1..Len(ret[t].runs)} : t \in Calls}

C20_FinishedRunsAreTerminal ==
    \A r \in FinishedRuns :
        /\ r.status \in {"success", "failed"}
        /\ r.completed_at # NoRun.completed_at
        /\ r.completed_at >= r.started_at
        /\ r.status = "success" <=>
              /\ Executed(r) = Declared(PlaybookWithId(r.playbook_id))
              /\ ErrorRecords(r) = {}

\* the host got back a run that succeeded and a run that failed after its
\* first action was recorded
C20_Witness ==
    \E t \in Calls : \E i, j \in 1..Len(ret[t].runs) :
        /\ ret[t].runs[i].status = "success"
        /\ Len(ret[t].runs[i].actions_taken) >= 2
        /\ ret[t].runs[j].status = "failed"
        /\ Len(Executed(ret[t].runs[j])) >= 1
        /\ Cardinality(ErrorRecords(ret[t].runs[j])) = 1
        /\ ret[t].runs[j] \in {runs[k] : k \in 1..Len(runs)}


(***************************************************************************)
(* Counters of the playbooks.                                              *)
(***************************************************************************)
\* how many events of the log playbook pb matched
TimesMatched(pb) ==
    Cardinality({k \in 1..Len(events) : PlaybookMatches(pb, events[k])})

\* how many runs of the history reference playbook pb
HistoryRunsOf(pb) == Len(SelectSeq(runs, LAMBDA r : r.playbook_id = pb.id))

\* call t of process_event has just returned [] for an event without a match
ReturnedNoMatch(t) ==
    /\ pc[t] = "idle"
    /\ pc'[t] = "done"
    /\ frame'[t].kind = "event"

(***************************************************************************)
(* C21  Once the process_event calls made so far have returned, every      *)
(* playbook's run_count is the number of events it matched, which is the   *)
(* number of runs of the history that reference its id; last_run is set    *)
(* exactly when run_count > 0; and an event that matches no playbook       *)
(* leaves every counter and the run history unchanged.                     *)
(***************************************************************************)
C21_RunCountCountsMatches ==
    /\ [](Quiet =>
            \A i \in 1..Len(playbooks) :
                /\ playbooks[i].run_count = TimesMatched(playbooks[i])
                /\ playbooks[i].run_count = HistoryRunsOf(playbooks[i])
                /\ playbooks[i].last_run # Playbook(0, "", <<>>, <<>>).last_run
                      <=> playbooks[i].run_count > 0)
    /\ [][\A t \in Calls : ReturnedNoMatch(t) => runs' = runs /\ playbooks' = playbooks]_vars

\* two events are in the log, one matched a playbook whose run is in the
\* history and the other matched none
C21_Witness ==
    /\ Quiet
    /\ Len(events) = 2
    /\ \E k \in 1..2 : MatchedBy(events[k]) = {}
    /\ \E i \in 1..Len(playbooks) :
          /\ playbooks[i].run_count = 1
          /\ HistoryRunsOf(playbooks[i]) = 1
    /\ \E i \in 1..Len(playbooks) : playbooks[i].run_count = 0


(***************************************************************************)
(* Events that bring an id or a received_at of their own.  One event,      *)
(* drawn from the set below, is sent by every call of the host.            *)
(***************************************************************************)
IdFields == {EmptyDict, "id" :> Str("evt-1"), "id" :> None}
ReceivedAtFields ==
    {EmptyDict, "received_at" :> Str("2024-01-01T00:00:00"), "received_at" :> Num(0)}

StampEvents ==
    {a @@ i @@ r : a \in {"alertname" :> Str("ServiceDown"), "alertname" :> Str("DiskFull")},
                   i \in IdFields, r \in ReceivedAtFields}

InitStamp ==
    /\ sources = [loki |-> Unavailable, vm |-> <<Ok(40), Ok(100), Ok(5), Ok(1)>>]
    /\ playbooks = DefaultPlaybooks
    /\ runs = <<>>
    /\ events = <<>>
    /\ investigations = [i \in {} |-> 0]
    /\ counter = 0
    /\ clock = 0
    /\ uuids = Len(DefaultPlaybooks)
    /\ pc = [t \in Calls |-> "idle"]
    /\ frame = [t \in Calls |-> EmptyFrame]
    /\ ret = [t \in Calls |-> NoRet]
    /\ calls = 0
    /\ \E e \in StampEvents : sample = [phase |-> "event", event |-> e]

SpecStamp == InitStamp /\ [][NextMatch]_vars

\* call t of process_event has just taken its event in
TookEventIn(t) == pc[t] = "idle" /\ pc'[t] # "idle" /\ frame'[t].kind = "event"

(***************************************************************************)
(* C22  process_event assigns a generated id and a received-at timestamp   *)
(* only when the event lacks them, keeping what the caller supplied, and   *)
(* appends the event to the log: the log grows by exactly one entry per    *)
(* call, every logged event has both fields, and entries already in the    *)
(* log are never modified or removed.                                      *)
(***************************************************************************)
C22_EventsStampedAndLogged ==
    /\ [](/\ \A k \in 1..Len(events) : {"id", "received_at"} \subseteq DOMAIN events[k]
          /\ Len(events) = calls)
    /\ [][/\ SubSeq(events', 1, Len(events)) = events
          /\ IF \E t \in Calls : TookEventIn(t)
             THEN /\ Len(events') = Len(events) + 1
                  /\ LET given == sample.event
                         logged == events'[Len(events')]
                     IN  /\ DOMAIN logged = DOMAIN given \cup {"id", "received_at"}
                         /\ \A f \in DOMAIN given : logged[f] = given[f]
                         /\ "id" \notin DOMAIN given => logged["id"] = Uuid(uuids')
                         /\ "received_at" \notin DOMAIN given =>
                               logged["received_at"] = Time(clock)
             ELSE events' = events]_vars

\* the log holds two entries with the id the caller supplied and a
\* received_at assigned on intake
C22_Witness ==
    /\ Len(events) = 2
    /\ events[1]["id"] = Str("evt-1")
    /\ events[2]["id"] = Str("evt-1")
    /\ events[1]["received_at"].t = "time"
    /\ events[2]["received_at"] # events[1]["received_at"]
    /\ "received_at" \notin DOMAIN sample.event


(***************************************************************************)
(* Cancellation.  The task that runs a call may be cancelled while it is   *)
(* suspended in one of the two fetches (the only places where investigate  *)
(* waits for I/O).  asyncio.CancelledError is no Exception: none of the    *)
(* `except Exception` clauses of fetch_loki_logs, fetch_vm_metrics,        *)
(* investigate, _run_playbook and the request handlers catches it, so the  *)
(* call ends there and nothing after the await is executed.                *)
(***************************************************************************)
Cancelled == [kind |-> "cancelled", runs |-> <<>>, inv |-> NoId]

Cancel(t) ==
    /\ pc[t] \in {"await_loki", "await_vm"}
    /\ pc' = [pc EXCEPT ![t] = "done"]
    /\ ret' = [ret EXCEPT ![t] = Cancelled]
    /\ UNCHANGED <<playbooks, runs, events, investigations, counter, clock, uuids,
                   frame, calls, sources, sample>>

NextCancel ==
    \/ Next
    \/ \E t \in Calls : Cancel(t)

\* what a call does once it has started: every adapter call returns or
\* times out, and the code between two awaits runs to the next await
Steps ==
    \E t \in Calls :
        \/ RunPlaybook(t)
        \/ ExecuteAction(t)
        \/ Investigate(t)
        \/ InvestigateBegin(t)
        \/ \E r \in LokiAnswers(sources.loki) : FetchLokiLogs(t, r)
        \/ \E w \in SyntheticDraws : FetchVmMetrics(t, sources.vm, w)
        \/ KubectlDescribe(t)
        \/ Analyze(t)
        \/ InvestigateReturn(t)

SpecCancel == Init /\ [][NextCancel]_vars /\ WF_vars(Steps)

\* the investigations of the map that were the n-th to be started
Started(n) == {i \in DOMAIN investigations : i[2] = n}
\* as many investigations as the calls of the host can start
InvNumbers == 1..(MaxCalls * Len(DefaultPlaybooks))

(***************************************************************************)
(* C23  Every investigation that has entered status investigating          *)
(* eventually is complete or failed, with a completion timestamp, in the   *)
(* investigation map, provided each adapter call eventually returns or     *)
(* times out; also when the caller awaiting it is cancelled while an       *)
(* adapter call is in flight.                                              *)
(***************************************************************************)
C23_InvestigationsFinish ==
    \A n \in InvNumbers :
        (\E i \in Started(n) : investigations[i].status = "investigating")
            ~> (\E i \in Started(n) :
                    /\ investigations[i].status \in {"complete", "failed"}
                    /\ investigations[i].completed_at # HolmesInvestigation(i, EmptyDict, 0).completed_at)


(***************************************************************************)
(* Accessors of the router: what they return, and the calls themselves,    *)
(* made between the host's other calls.                                    *)
(***************************************************************************)
\* xs[-limit:] for limit >= 0; xs[-0:] is xs[0:], the whole list
TakeLast(xs, limit) ==
    IF limit = 0 THEN xs
    ELSE SubSeq(xs, IF limit < Len(xs) THEN Len(xs) - limit + 1 ELSE 1, Len(xs))

\* reversed(xs)
Reversed(xs) == [j \in 1..Len(xs) |-> xs[Len(xs) + 1 - j]]

\* RobustaEventProcessor.list_runs
list_runs(limit) == Take(SortedNewestFirst(runs), limit)

\* RobustaEventProcessor.list_events
list_events(limit) == Reversed(TakeLast(events, limit))

\* GET /api/robusta/runs
ListRuns(limit) ==
    /\ Quiet
    /\ Len(list_runs(limit)) <= Len(runs)
    /\ UNCHANGED vars

\* GET /api/robusta/events
ListEvents(limit) ==
    /\ Quiet
    /\ Len(list_events(limit)) <= Len(events)
    /\ UNCHANGED vars

NextList ==
    \/ Next
    \/ \E n \in Limits : ListRuns(n)
    \/ \E n \in Limits : ListEvents(n)

SpecList == Init /\ [][NextList]_vars

(***************************************************************************)
(* C24  For every limit >= 0, list_runs(limit) returns at most limit runs, *)
(* ordered by start time newest first, and list_events(limit) returns at   *)
(* most limit events, the most recently received first.                    *)
(***************************************************************************)
C24_ListsHoldAtMostLimit ==
    \A limit \in Limits :
        LET rs == list_runs(limit)
            es == list_events(limit)
        IN  /\ Len(rs) <= limit
            /\ \A j \in 1..(Len(rs) - 1) : rs[j].started_at >= rs[j + 1].started_at
            /\ {rs[j] : j \in 1..Len(rs)} \subseteq {runs[k] : k \in 1..Len(runs)}
            /\ Len(es) <= limit
            /\ \A j \in 1..Len(es) : es[j] = events[Len(events) + 1 - j]


\* run r is a run of one of the built-in playbooks
BuiltIn(r) == \E i \in 1..Len(DefaultPlaybooks) : DefaultPlaybooks[i].id = r.playbook_id

(***************************************************************************)
(* C25  In every built-in playbook, when a k8s_query action executes, an   *)
(* investigate action of the same run has already completed: the run's     *)
(* investigation id is set and the query's result refers to an             *)
(* investigation of the map, not to none.                                  *)
(***************************************************************************)
C25_QueryAfterInvestigate ==
    \A r \in AllRuns :
        BuiltIn(r) =>
            \A j \in 1..Len(r.actions_taken) :
                r.actions_taken[j].type = "k8s_query" =>
                    /\ \E k \in 1..(j - 1) : r.actions_taken[k].type = "investigate"
                    /\ r.actions_taken[j].result.inv # NoId
                    /\ r.actions_taken[j].result.inv \in DOMAIN investigations


(***************************************************************************)
(* Concurrent calls.  The host's calls are tasks of one event loop; a task *)
(* runs until it waits for I/O (the two fetches) or returns, and only then *)
(* another task starts or resumes.                                         *)
(***************************************************************************)
\* task t waits for a fetch to return
Suspended(t) == pc[t] \in {"await_loki", "await_vm"}
\* task t holds the event loop
Running(t) == pc[t] \notin {"idle", "done"} /\ ~Suspended(t)
\* the event loop is free for task t
Scheduled(t) == \A u \in Calls \ {t} : ~Running(u)

\* the next call is made while earlier calls may still be waiting
CanSpawn(t) == calls < MaxCalls /\ t = calls + 1 /\ pc[t] = "idle" /\ Scheduled(t)

SpawnEvent(t, e) == CanSpawn(t) /\ TakeIn(t, e)

InitTasks ==
    /\ sources = [loki |-> [kind |-> "ok", lines |-> <<LiveLine("GET /health 200"),
                                                      LiveLine("upstream request timeout")>>],
                  vm |-> <<Ok(95), Ok(100), Ok(5), Ok(1)>>]
    /\ playbooks = DefaultPlaybooks
    /\ runs = <<>>
    /\ events = <<>>
    /\ investigations = [i \in {} |-> 0]
    /\ counter = 0
    /\ clock = 0
    /\ uuids = Len(DefaultPlaybooks)
    /\ pc = [t \in Calls |-> "idle"]
    /\ frame = [t \in Calls |-> EmptyFrame]
    /\ ret = [t \in Calls |-> NoRet]
    /\ calls = 0
    /\ sample = NoSample

\* what the tasks send: an event for on_service_down, one for both
\* on_oom_kill and on_critical_alert, and one that matches no playbook
TaskEvents ==
    { [alertname |-> Str("ServiceDown"), service |-> Str("checkout"),
       cluster |-> Str("prod-1"), status |-> Str("down")],
      [alertname |-> Str("OOMKilled"), severity |-> Str("critical"),
       service |-> Str("memory-hog")],
      [alertname |-> Str("DiskFull"), service |-> Str("db")] }

NextTasks ==
    \/ \E t \in Calls, e \in TaskEvents : SpawnEvent(t, e)
    \/ \E t \in Calls : Scheduled(t) /\ RunPlaybook(t)
    \/ \E t \in Calls : Scheduled(t) /\ ExecuteAction(t)
    \/ \E t \in Calls : Scheduled(t) /\ Investigate(t)
    \/ \E t \in Calls : Scheduled(t) /\ InvestigateBegin(t)
    \/ \E t \in Calls, r \in LokiAnswers(sources.loki) : Scheduled(t) /\ FetchLokiLogs(t, r)
    \/ \E t \in Calls, w \in SyntheticDraws : Scheduled(t) /\ FetchVmMetrics(t, sources.vm, w)
    \/ \E t \in Calls : Scheduled(t) /\ KubectlDescribe(t)
    \/ \E t \in Calls : Scheduled(t) /\ Analyze(t)
    \/ \E t \in Calls : Scheduled(t) /\ InvestigateReturn(t)

SpecTasks == InitTasks /\ [][NextTasks]_vars

\* the investigate records of run r
OwnInvestigations(r) ==
    {r.actions_taken[j].result.inv :
        j \in {k \in 1..Len(r.actions_taken) : r.actions_taken[k].type = "investigate"}}

(***************************************************************************)
(* C26  When several process_event calls run concurrently on the one       *)
(* cooperative scheduler, then once all calls have returned: the event log *)
(* holds exactly one entry per call, the history holds exactly one run per *)
(* (call, matched playbook) pair, each playbook's run_count is the number  *)
(* of history runs that reference it, and each run's investigation id and  *)
(* enrichment come from the investigation its own investigate action       *)
(* started.                                                                *)
(***************************************************************************)
C26_ConcurrentCallsKeepTheBooks ==
    Quiet =>
        /\ Len(events) = calls
        /\ \A k \in 1..Len(events) : \A m \in 1..Len(events) :
              events[k]["id"] = events[m]["id"] => k = m
        /\ \A k \in 1..Len(events) : \A i \in 1..Len(playbooks) :
              Len(SelectSeq(runs, LAMBDA r : r.event = events[k] /\ r.playbook_id = playbooks[i].id))
                 = IF i \in MatchedBy(events[k]) THEN 1 ELSE 0
        /\ \A j \in 1..Len(runs) : \E k \in 1..Len(events) : runs[j].event = events[k]
        /\ \A i \in 1..Len(playbooks) : playbooks[i].run_count = HistoryRunsOf(playbooks[i])
        /\ \A j \in 1..Len(runs) :
              LET r == runs[j]
                  inv == investigations[r.investigation_id]
              IN  /\ OwnInvestigations(r) = {r.investigation_id}
                  /\ r.investigation_id \in DOMAIN investigations
                  /\ inv.alert = AlertForHolmes(r.event)
                  /\ inv.started_at >= r.started_at
                  /\ inv.completed_at <= r.completed_at
                  /\ r.enrichment = Enrich(r, inv).enrichment
                  /\ \A m \in 1..Len(runs) :
                        runs[m].investigation_id = r.investigation_id => m = j

\* both calls have returned, and the run of the second call joined the
\* history before the run of the first: the first call was overtaken while
\* it waited for a fetch
C26_Witness ==
    /\ Quiet
    /\ calls = 2
    /\ Len(runs) >= 2
    /\ runs[1].event = events[2]
    /\ runs[Len(runs)].event = events[1]
    /\ investigations[runs[1].investigation_id].started_at
          >= investigations[runs[Len(runs)].investigation_id].started_at
    /\ runs[1].enrichment # runs[Len(runs)].enrichment


(***************************************************************************)
(* C27  Whenever the log source is unavailable, so that the nine synthetic *)
(* entries are the log evidence, every investigation that completes is     *)
(* classified by rule 1 (out-of-memory) with confidence high, whatever the *)
(* alert name, the metrics snapshot and the resource description are.      *)
(***************************************************************************)
C27_SyntheticLogsMeanOom ==
    \A i \in DOMAIN investigations :
        LET inv == investigations[i]
        IN  (sources.loki = Unavailable /\ inv.status = "complete") =>
                /\ Len(inv.log_evidence) = Len(SyntheticEntries)
                /\ inv.root_cause.template = "oom"
                /\ "OOMKill" \in Phrases(inv.root_cause.template)
                /\ inv.confidence = "high"
                /\ inv.findings[1] = "oomkilled"

\* with the log source unavailable an investigation is complete whose alert
\* is named ServiceDown, whose CPU is above 80 and whose container last
\* state is Completed: rules 2 and 3 would fit, rule 1 was applied
C27_Witness ==
    /\ sources.loki = Unavailable
    /\ \E i \in DOMAIN investigations :
          LET inv == investigations[i]
          IN  /\ inv.status = "complete"
              /\ Get(inv.alert, "alertname", None) = Str("ServiceDown")
              /\ inv.metric_evidence.cpu_usage_pct > 80
              /\ inv.k8s_context.containers[1].last_state = "Completed"
              /\ inv.root_cause.template = "oom"


\* the investigations that run r's investigate actions got back failed
FailedInvestigationsOf(r) ==
    {i \in OwnInvestigations(r) : investigations[i].status = "failed"}

(***************************************************************************)
(* C28  When the investigation started by an investigate action ends with  *)
(* status failed, the action does not raise: it is recorded like any       *)
(* other, the remaining actions of the playbook still execute, the run     *)
(* ends with status success, and the run's enrichment holds the failed     *)
(* investigation's root cause ('Investigation failed: ...') together with  *)
(* confidence 'medium', the constructor's default.                         *)
(***************************************************************************)
C28_FailedInvestigationStillSucceeds ==
    /\ \A r \in AllRuns :
          \A i \in FailedInvestigationsOf(r) :
              /\ ErrorRecords(r) = {}
              /\ r.status # "failed"
              /\ r.investigation_id = i
              /\ {"root_cause", "confidence"} \subseteq DOMAIN r.enrichment
              /\ r.enrichment["root_cause"] = investigations[i].root_cause
              /\ "Investigation failed" \in Phrases(r.enrichment["root_cause"].template)
              /\ r.enrichment["confidence"] = "medium"
              /\ r.enrichment["confidence"] = HolmesInvestigation(i, EmptyDict, 0).confidence
    /\ \A r \in FinishedRuns :
          FailedInvestigationsOf(r) # {} =>
              /\ r.status = "success"
              /\ Executed(r) = Declared(PlaybookWithId(r.playbook_id))

\* the host got back a successful run of three actions whose first action,
\* the investigation, failed, and whose notify action came after it
C28_Witness ==
    \E t \in Calls : \E j \in 1..Len(ret[t].runs) :
        LET r == ret[t].runs[j]
        IN  /\ FailedInvestigationsOf(r) # {}
            /\ r.status = "success"
            /\ Len(r.actions_taken) = 3
            /\ r.actions_taken[1].type = "investigate"
            /\ r.actions_taken[3].type = "notify"
            /\ r.actions_taken[3].result.rc.template = "failed"


(***************************************************************************)
(* The step log of an investigation.                                       *)
(***************************************************************************)
\* The text a step's result starts with once the step has returned
\* (investigate lines 327, 336, 347, 363)
FinalText == <<"Found", "CPU/Memory/Up", "Pod status", "Root cause identified">>

\* The step holds the result its tool returned
Final(inv, i) == inv.steps[i].result.text = FinalText[i]

\* C29: the step log of an investigation only grows and is never
\* reordered: a step once logged keeps its tool and its place, and a result
\* once final is not written again. A complete investigation has exactly
\* the four steps loki, victoria-metrics, kubectl, ai-engine, in that
\* order, each with its final result; a failed one has one to four steps, a
\* prefix of that order, of which the last holds its placeholder and every
\* earlier one its final result.
C29_StepLogGrowsInOrder ==
    /\ [](\A id \in DOMAIN investigations :
            LET inv == investigations[id]
            IN  /\ inv.status = "complete" =>
                    /\ Tools(inv) = StepOrder
                    /\ \A i \in 1..4 : Final(inv, i)
                /\ inv.status = "failed" =>
                    /\ Len(inv.steps) \in 1..4
                    /\ IsPrefix(Tools(inv), StepOrder)
                    /\ Outstanding(inv.steps[Len(inv.steps)])
                    /\ \A i \in 1..(Len(inv.steps) - 1) : Final(inv, i))
    /\ [][\A id \in DOMAIN investigations :
            /\ id \in DOMAIN investigations'
            /\ IsPrefix(Tools(investigations[id]), Tools(investigations'[id]))
            /\ \A i \in 1..Len(investigations[id].steps) :
                    ~Outstanding(investigations[id].steps[i]) =>
                        investigations'[id].steps[i] = investigations[id].steps[i]]_vars

\* one investigation is complete and another failed in its third step,
\* whose placeholder it still holds
C29_Witness ==
    \E a, b \in DOMAIN investigations :
        /\ investigations[a].status = "complete"
        /\ Tools(investigations[a]) = StepOrder
        /\ investigations[b].status = "failed"
        /\ Len(investigations[b].steps) = 3
        /\ investigations[b].steps[3].result.text = "querying..."


(***************************************************************************)
(* Identifiers of investigations.                                          *)
(***************************************************************************)
\* call t is inside investigate, past lines 305-307
Investigating(t) == pc[t] \in {"begin", "await_loki", "await_vm", "kubectl", "analyze", "return"}

\* C30: the identifiers one engine generates are pairwise distinct, for
\* calls made one after the other and for calls that interleave: every
\* investigate call adds one new entry to the investigation map, so the
\* map holds one entry per call; an entry is never removed and never
\* replaced by another call's investigation; and get(id) returns the
\* investigation that was created with that id, for the alert of the call
\* that created it.
C30_IdentifiersAreDistinct ==
    /\ [](/\ Cardinality(DOMAIN investigations) = counter
          /\ \A id \in DOMAIN investigations :
                /\ get(id).kind = "inv"
                /\ get(id).items[1].id = id
          /\ \A t \in Calls :
                Investigating(t) =>
                    /\ get(frame[t].inv).kind = "inv"
                    /\ get(frame[t].inv).items[1].alert = frame[t].alert
                    /\ \A u \in Calls \ {t} :
                            Investigating(u) => frame[u].inv # frame[t].inv
          /\ \A r \in AllRuns : \A id \in OwnInvestigations(r) :
                /\ get(id).kind = "inv"
                /\ get(id).items[1].alert = AlertForHolmes(r.event)
                /\ \A s \in AllRuns :
                        id \in OwnInvestigations(s) => s.id = r.id)
    /\ [][/\ \A id \in DOMAIN investigations :
                /\ id \in DOMAIN investigations'
                /\ investigations'[id].id = investigations[id].id
                /\ investigations'[id].alert = investigations[id].alert
                /\ investigations'[id].started_at = investigations[id].started_at
          /\ Cardinality(DOMAIN investigations' \ DOMAIN investigations) = counter' - counter]_vars

\* two calls that interleave have each created an investigation in the
\* same second, for different alerts, while an earlier call's is in the map
C30_Witness ==
    \E t, u \in Calls :
        /\ t # u
        /\ Investigating(t)
        /\ Investigating(u)
        /\ frame[t].alert # frame[u].alert
        /\ investigations[frame[t].inv].started_at = investigations[frame[u].inv].started_at

====
